---- MODULE Spec2Model ----
(***************************************************************************)
(* A model of the Jo parser (package jo): the Source cursor, the parser    *)
(* combinators and the grammar rules built from them.                      *)
(*                                                                         *)
(* A Go string is a sequence of bytes.  A byte is written as a one         *)
(* character string when it is ASCII ("a", "(") and as its two hex digits  *)
(* when it is part of a multi-byte UTF-8 encoding ("C3", "A9").  A rune is *)
(* written as its ASCII character or as "U+XXXX".                          *)
(*                                                                         *)
(* A parser (a Go closure or a value with a Parse method) is a term; Apply *)
(* runs a term on a Source as the closure's body does.  A parser whose Go  *)
(* loop never ends has the result Diverged.                                *)
(***************************************************************************)
EXTENDS Integers, Sequences, FiniteSets, TLC

VARIABLES content, src, call

vars == <<content, src, call>>

-----------------------------------------------------------------------------
(* Bytes and runes: unicode/utf8 and unicode, restricted to the runes the  *)
(* model's inputs are written in.                                          *)

NonAsciiBytes == {"C3", "A9", "C2", "A0", "D9", "A3", "EF", "BF", "BD", "FF"}

\* The multi-byte runes of the model with their UTF-8 encodings.
Encodings ==
    { [r |-> "U+00E9", b |-> <<"C3", "A9">>],          \* e acute, a letter
      [r |-> "U+00A0", b |-> <<"C2", "A0">>],          \* no-break space
      [r |-> "U+0663", b |-> <<"D9", "A3">>],          \* arabic-indic digit three
      [r |-> "U+FFFD", b |-> <<"EF", "BF", "BD">>] }   \* the replacement character

RuneError == "U+FFFD"

HasPrefix(s, prefix) ==
    /\ Len(prefix) <= Len(s)
    /\ SubSeq(s, 1, Len(prefix)) = prefix

\* utf8.DecodeRuneInString: the first rune of s and its width in bytes;
\* (RuneError, 0) on the empty string, (RuneError, 1) on a malformed encoding.
DecodeRuneInString(s) ==
    IF Len(s) = 0 THEN [r |-> RuneError, size |-> 0]
    ELSE IF s[1] \notin NonAsciiBytes THEN [r |-> s[1], size |-> 1]
    ELSE IF \E e \in Encodings : HasPrefix(s, e.b)
         THEN LET e == CHOOSE x \in Encodings : HasPrefix(s, x.b)
              IN [r |-> e.r, size |-> Len(e.b)]
         ELSE [r |-> RuneError, size |-> 1]

\* The UTF-8 encoding of a rune (strings.Builder.WriteRune, string(r)).
EncodeRune(r) ==
    IF \E e \in Encodings : e.r = r
    THEN (CHOOSE e \in Encodings : e.r = r).b
    ELSE <<r>>

LowerLetters ==
    {"a", "b", "c", "d", "e", "f", "g", "h", "i", "j", "k", "l", "m",
     "n", "o", "p", "q", "r", "s", "t", "u", "v", "w", "x", "y", "z"}

IsLetter(r) == r \in LowerLetters \cup {"F", "T", "U+00E9"}

IsDigit(r) == r \in {"0", "1", "2", "3", "4", "5", "6", "7", "8", "9", "U+0663"}

IsSpace(r) == r \in {" ", "\n", "\t", "U+00A0"}

-----------------------------------------------------------------------------
(* Source, the cursor.                                                     *)

Source(c, o) == [Content |-> c, Offset |-> o]

Remaining(s) == SubSeq(s.Content, s.Offset + 1, Len(s.Content))

Finished(s) == s.Offset >= Len(s.Content)

\* A variant of Advance that does not stop at the end of the content.
AdvanceUnclamped(s, n) == Source(s.Content, s.Offset + n)

Advance(s, n) ==
    IF n + s.Offset >= Len(s.Content)
    THEN Source(s.Content, Len(s.Content))
    ELSE Source(s.Content, s.Offset + n)

PeekRune(s) == DecodeRuneInString(Remaining(s))

\* Peek ranges over the whole Content, not over Remaining.
Peek(s) ==
    IF Len(s.Content) = 0 THEN <<>>
    ELSE EncodeRune(DecodeRuneInString(s.Content).r)

NewSource(c) == Source(c, 0)

-----------------------------------------------------------------------------
(* Matched values (interface{}) and errors.                                *)

Nil == [t |-> "nil"]

Str(s) == [t |-> "string", str |-> s]

RuneV(r) == [t |-> "rune", rune |-> r]

\* A slice: its element type, its elements, and whether it is the nil slice.
Slice(type, xs) == [t |-> type, items |-> xs, isnil |-> FALSE]

NilSlice(type) == [t |-> type, items |-> <<>>, isnil |-> TRUE]

AppendTo(s, x) == Slice(s.t, Append(s.items, x))

List(xs) == Slice("[]interface{}", xs)

MatchedPair(l, r) == [t |-> "MatchedPair", Left |-> l, Right |-> r]

\* A message is its format string followed by the formatted operands.
NewParseError(offset, message) ==
    [t |-> "ParseError", Offset |-> offset, Message |-> message]

\* What a call of Parse returns.  diverged: the call never returns.
Result(output, matched, err) ==
    [output |-> output, matched |-> matched, err |-> err,
     diverged |-> FALSE, toodeep |-> FALSE]

Diverged(input) ==
    [output |-> input, matched |-> Nil, err |-> Nil,
     diverged |-> TRUE, toodeep |-> FALSE]

Failed(r) == ~r.diverged /\ r.err # Nil

Succeeded(r) == ~r.diverged /\ r.err = Nil

-----------------------------------------------------------------------------
(* Parser terms: what the constructors of the combinator kernel return.    *)
(* Named(n) is a package-level parser referred to by its name.             *)

Literal(s) == [k |-> "Literal", s |-> s]

Identifier == [k |-> "Identifier"]

Pair(p1, p2) == [k |-> "Pair", p1 |-> p1, p2 |-> p2]

Sequence(ps) == [k |-> "Sequence", ps |-> ps]

Left(p1, p2) == [k |-> "Left", p1 |-> p1, p2 |-> p2]

Right(p1, p2) == [k |-> "Right", p1 |-> p1, p2 |-> p2]

OneOrMore(p) == [k |-> "OneOrMore", p |-> p]

ZeroOrMore(p) == [k |-> "ZeroOrMore", p |-> p]

Optional(p) == [k |-> "Optional", p |-> p]

AnyChar == [k |-> "AnyChar"]

Pred(p, f) == [k |-> "Pred", p |-> p, f |-> f]

Map(p, f) == [k |-> "Map", p |-> p, f |-> f]

Choice(ps) == [k |-> "Choice", ps |-> ps]

Rune(r) == [k |-> "Rune", r |-> r]

Noop == [k |-> "Noop"]

Named(n) == [k |-> "Named", name |-> n]

\* A closure handed to Map or Pred, by the name of the parser it is written in.
Fn(name) == [fn |-> name]

WhitespaceChar == Pred(AnyChar, Fn("unicode.IsSpace"))

OneOrMoreWhitespaceChars == OneOrMore(WhitespaceChar)

ZeroOrMoreWhitespaceChars == ZeroOrMore(WhitespaceChar)

\* A variant of WhitespaceWrap that takes no white space before p.
WhitespaceAfter(p) == Left(p, ZeroOrMoreWhitespaceChars)

WhitespaceWrap(p) ==
    Right(ZeroOrMoreWhitespaceChars, Left(p, ZeroOrMoreWhitespaceChars))

Parenthesized(p) == Right(Rune("("), Left(p, Rune(")")))

Token(name) == [t |-> "token.Token", tok |-> name]

MapConst(p, v) == Map(p, [fn |-> "MapConst", v |-> v])

QuotedString ==
    Map(Right(Literal(<<"\"">>),
              Left(ZeroOrMore(Pred(AnyChar, Fn("QuotedString"))), Literal(<<"\"">>))),
        Fn("QuotedString"))

Keyword(kw) == Pred(Identifier, [fn |-> "Keyword", k |-> kw])

-----------------------------------------------------------------------------
(* The grammar: the package-level parsers, by name.                        *)

Ident == Map(Identifier, Fn("Ident"))

QualifiedIdent == Map(Pair(Ident, Right(Rune("."), Ident)), Fn("QualifiedIdent"))

\* A variant of OperandName that tries the single identifier first.
OperandNameIdentFirst == Choice(<<Ident, QualifiedIdent>>)

OperandName == Choice(<<QualifiedIdent, Ident>>)

Expr == Named("Expr")

Statement == Named("Statement")

Block == Named("Block")

StatementList == Named("StatementList")

decimalDigit == Pred(AnyChar, Fn("decimalDigit"))

decimalFloatLit ==
    Map(Pair(OneOrMore(decimalDigit), Right(Rune("."), OneOrMore(decimalDigit))),
        Fn("decimalFloatLit"))

nonZeroDigit == Pred(decimalDigit, Fn("nonZeroDigit"))

nonZeroDecimalLit ==
    Map(Pair(nonZeroDigit, ZeroOrMore(decimalDigit)), Fn("nonZeroDecimalLit"))

\* A variant of decimalLit whose first digit may be 0.
decimalLitLeadingZeros ==
    Map(Choice(<<Map(Pair(decimalDigit, ZeroOrMore(decimalDigit)),
                     Fn("nonZeroDecimalLit")),
                 Literal(<<"0">>)>>),
        Fn("decimalLit"))

decimalLit == Map(Choice(<<Literal(<<"0">>), nonZeroDecimalLit>>), Fn("decimalLit"))

escapedChar ==
    Choice(<<Literal(<<"\\", "a">>), Literal(<<"\\", "b">>), Literal(<<"\\", "f">>),
             Literal(<<"\\", "n">>), Literal(<<"\\", "r">>), Literal(<<"\\", "t">>),
             Literal(<<"\\", "v">>), Literal(<<"\\", "\\">>), Literal(<<"\\", "'">>),
             Literal(<<"\\", "\"">>)>>)

RuneLit ==
    Map(Right(Rune("'"), Left(Choice(<<escapedChar, AnyChar>>), Rune("'"))),
        Fn("RuneLit"))

stringLit == Map(QuotedString, Fn("stringLit"))

\* A variant of basicLit that tries the integer before the float.
basicLitIntFirst == Choice(<<decimalLit, decimalFloatLit, RuneLit, stringLit>>)

basicLit == Choice(<<decimalFloatLit, decimalLit, RuneLit, stringLit>>)

PackageClause ==
    Parenthesized(Right(Literal(<<"p", "a", "c", "k", "a", "g", "e">>),
                        Right(OneOrMoreWhitespaceChars, Ident)))

BinaryOp ==
    Choice(<<MapConst(Rune("+"), Token("ADD")), MapConst(Rune("*"), Token("MUL")),
             MapConst(Rune("/"), Token("QUO")), MapConst(Rune("="), Token("EQL")),
             MapConst(Rune("<"), Token("LSS")), MapConst(Rune(">"), Token("GTR")),
             MapConst(Rune("%"), Token("REM")), MapConst(Literal(<<"!", "=">>), Token("NEQ"))>>)

BinaryExpr ==
    Map(Parenthesized(Pair(BinaryOp,
            Right(OneOrMoreWhitespaceChars,
                  Pair(Expr, Right(OneOrMoreWhitespaceChars, Expr))))),
        Fn("BinaryExpr"))

UnaryOp == Choice(<<MapConst(Rune("&"), Token("AND"))>>)

UnaryExpr == Map(Pair(UnaryOp, Expr), Fn("UnaryExpr"))

CallExpr ==
    Map(Parenthesized(Pair(OperandName,
                           ZeroOrMore(Right(OneOrMoreWhitespaceChars, Expr)))),
        Fn("CallExpr"))

SelectorCall ==
    Map(Parenthesized(Pair(Ident, ZeroOrMore(Right(OneOrMoreWhitespaceChars, Expr)))),
        Fn("SelectorCall"))

Selector ==
    Map(Parenthesized(Right(Literal(<<"s", "e", "l">>),
            Right(OneOrMoreWhitespaceChars,
                  Pair(Expr,
                       OneOrMore(Right(OneOrMoreWhitespaceChars,
                                       Choice(<<SelectorCall, Ident>>))))))),
        Fn("Selector"))

exprParse == Choice(<<basicLit, BinaryExpr, UnaryExpr, Selector, CallExpr, OperandName>>)

StructType ==
    Map(Parenthesized(Right(Literal(<<"s", "t", "r", "u", "c", "t">>),
            ZeroOrMore(Right(ZeroOrMoreWhitespaceChars,
                Parenthesized(Pair(Ident, Right(OneOrMoreWhitespaceChars, Ident))))))),
        Fn("StructType"))

TypeDecl ==
    Map(Parenthesized(Right(Literal(<<"t", "y", "p", "e">>),
            Right(OneOrMoreWhitespaceChars,
                  Pair(Ident, Right(OneOrMoreWhitespaceChars, StructType))))),
        Fn("TypeDecl"))

\* A variant of statementListParse whose repetition repeats a parser that
\* succeeds where no statement is found.
statementListParseOptional ==
    Map(ZeroOrMore(Optional(WhitespaceWrap(Statement))), Fn("StatementList"))

statementListParse == Map(ZeroOrMore(WhitespaceWrap(Statement)), Fn("StatementList"))

ExprStmt == Map(Expr, Fn("ExprStmt"))

IncDecStmt ==
    Map(Parenthesized(Pair(Choice(<<MapConst(Keyword(<<"i", "n", "c">>), Token("INC")),
                                    MapConst(Keyword(<<"d", "e", "c">>), Token("DEC"))>>),
                           WhitespaceWrap(Expr))),
        Fn("IncDecStmt"))

DoExpr ==
    Map(Parenthesized(Right(Literal(<<"d", "o">>), StatementList)), Fn("DoExpr"))

FunctionDecl ==
    Map(Parenthesized(Right(Literal(<<"f", "u", "n", "c">>),
            Right(OneOrMoreWhitespaceChars,
                  Pair(Ident,
                       Right(Right(OneOrMoreWhitespaceChars, Parenthesized(Noop)),
                             WhitespaceWrap(StatementList)))))),
        Fn("FunctionDecl"))

\* A variant of TopLevelDecl that tries FunctionDecl first.
TopLevelDeclFunctionFirst == Choice(<<FunctionDecl, TypeDecl>>)

TopLevelDecl == Choice(<<TypeDecl, FunctionDecl>>)

ImportDecl ==
    Map(Parenthesized(Right(Literal(<<"i", "m", "p", "o", "r", "t">>),
            OneOrMore(Right(OneOrMoreWhitespaceChars, stringLit)))),
        Fn("ImportDecl"))

blockParse == Map(Choice(<<DoExpr, Statement>>), Fn("Block"))

IfStmt ==
    Map(Parenthesized(Right(Keyword(<<"i", "f">>),
            Pair(Right(ZeroOrMoreWhitespaceChars, Expr),
                 Pair(WhitespaceWrap(Block), Optional(WhitespaceWrap(Block)))))),
        Fn("IfStmt"))

IdentifierList ==
    Map(Choice(<<Parenthesized(OneOrMore(WhitespaceWrap(Ident))), Ident>>),
        Fn("IdentifierList"))

ExpressionList ==
    Map(Choice(<<Parenthesized(OneOrMore(WhitespaceWrap(Expr))), Ident, basicLit>>),
        Fn("ExpressionList"))

Define ==
    Map(Parenthesized(Right(Literal(<<"d", "e", "f", "i", "n", "e">>),
            Pair(Right(OneOrMoreWhitespaceChars, IdentifierList),
                 Right(OneOrMoreWhitespaceChars, ExpressionList)))),
        Fn("Define"))

DeclStmt ==
    Map(Parenthesized(Right(Keyword(<<"v", "a", "r">>),
            Pair(WhitespaceWrap(Ident), WhitespaceWrap(Ident)))),
        Fn("DeclStmt"))

Assignment ==
    Map(Parenthesized(Right(Keyword(<<"a", "s", "s", "i", "g", "n">>),
            Pair(WhitespaceWrap(IdentifierList), WhitespaceWrap(ExpressionList)))),
        Fn("Assignment"))

SimpleStmt == Choice(<<Define, Assignment, IncDecStmt, ExprStmt>>)

ForStmt ==
    Map(Parenthesized(Right(Keyword(<<"f", "o", "r">>),
            Sequence(<<WhitespaceWrap(SimpleStmt), WhitespaceWrap(Expr),
                       WhitespaceWrap(SimpleStmt), WhitespaceWrap(Block)>>))),
        Fn("ForStmt"))

ExprSwitchStmt ==
    Map(Parenthesized(Right(Keyword(<<"s", "w", "i", "t", "c", "h">>),
            ZeroOrMore(WhitespaceWrap(Choice(<<
                Parenthesized(Right(Keyword(<<"c", "a", "s", "e">>),
                    Pair(WhitespaceWrap(ExpressionList), WhitespaceWrap(Block)))),
                Parenthesized(Right(Keyword(<<"d", "e", "f", "a", "u", "l", "t">>),
                    WhitespaceWrap(Block)))>>))))),
        Fn("ExprSwitchStmt"))

statementParse == Choice(<<ExprSwitchStmt, ForStmt, DeclStmt, IfStmt, SimpleStmt>>)

SourceFile ==
    Map(Sequence(<<WhitespaceWrap(PackageClause),
                   WhitespaceWrap(ZeroOrMore(WhitespaceWrap(ImportDecl))),
                   WhitespaceWrap(OneOrMore(WhitespaceWrap(TopLevelDecl)))>>),
        Fn("SourceFile"))

\* The parser a name stands for.
Lookup(name) ==
    CASE name = "Expr" -> exprParse
      [] name = "Statement" -> statementParse
      [] name = "Block" -> blockParse
      [] name = "StatementList" -> statementListParse

-----------------------------------------------------------------------------
(* The closures of the grammar: the go/ast nodes they build.               *)

IsExpr(v) ==
    v.t \in {"*ast.Ident", "*ast.BasicLit", "*ast.BinaryExpr", "*ast.UnaryExpr",
             "*ast.SelectorExpr", "*ast.CallExpr", "*ast.StructType"}

IsStmt(v) ==
    v.t \in {"*ast.ExprStmt", "*ast.IfStmt", "*ast.ForStmt", "*ast.SwitchStmt",
             "*ast.AssignStmt", "*ast.DeclStmt", "*ast.IncDecStmt", "*ast.BlockStmt",
             "*ast.CaseClause"}

\* The string a strings.Builder holds after WriteRune of each rune of a list.
RECURSIVE WriteRunes(_)
WriteRunes(runes) ==
    IF Len(runes) = 0 THEN <<>>
    ELSE EncodeRune(runes[1].rune) \o WriteRunes(Tail(runes))

\* var xs []T followed by an append for each element: nil when there is none.
Appended(type, xs) == IF Len(xs) = 0 THEN NilSlice(type) ELSE Slice(type, xs)

NewIdent(m) == [t |-> "*ast.Ident", Name |-> m.str]

BasicLit(kind, value) == [t |-> "*ast.BasicLit", Kind |-> kind, Value |-> value]

SelectorExpr(x, sel) == [t |-> "*ast.SelectorExpr", X |-> x, Sel |-> sel]

quotedStringFn(m) == Str(WriteRunes(m.items))

decimalFloatLitFn(m) ==
    BasicLit("FLOAT", WriteRunes(m.Left.items) \o <<".">> \o WriteRunes(m.Right.items))

nonZeroDecimalLitFn(m) == Str(EncodeRune(m.Left.rune) \o WriteRunes(m.Right.items))

runeLitFn(m) ==
    LET value == CASE m.t = "string" -> m.str
                   [] m.t = "rune" -> EncodeRune(m.rune)
                   [] OTHER -> <<>>
    IN BasicLit("CHAR", <<"'">> \o value \o <<"'">>)

stringLitFn(m) == BasicLit("STRING", <<"\"">> \o m.str \o <<"\"">>)

binaryExprFn(m) ==
    [t |-> "*ast.BinaryExpr", X |-> m.Right.Left, Op |-> m.Left, Y |-> m.Right.Right]

unaryExprFn(m) == [t |-> "*ast.UnaryExpr", Op |-> m.Left, X |-> m.Right]

callExprFn(m) ==
    [t |-> "*ast.CallExpr", Fun |-> m.Left, Args |-> Appended("[]ast.Expr", m.Right.items)]

selectorCallFn(m) ==
    [t |-> "selectorCall", Sel |-> m.Left, Args |-> Appended("[]ast.Expr", m.Right.items)]

\* A variant of the loop of selector.Parse that applies the suffixes from
\* the last to the first.
RECURSIVE selectorFoldRight(_, _)
selectorFoldRight(expr, ps) ==
    IF Len(ps) = 0 THEN expr
    ELSE LET x == ps[1]
             inner == selectorFoldRight(expr, Tail(ps))
         IN CASE x.t = "*ast.Ident" -> SelectorExpr(inner, x)
              [] x.t = "selectorCall" ->
                   [t |-> "*ast.CallExpr", Fun |-> SelectorExpr(inner, x.Sel),
                    Args |-> x.Args]
              [] OTHER -> inner

RECURSIVE selectorFold(_, _)
selectorFold(expr, ps) ==
    IF Len(ps) = 0 THEN expr
    ELSE LET x == ps[1]
             next == CASE x.t = "*ast.Ident" -> SelectorExpr(expr, x)
                       [] x.t = "selectorCall" ->
                            [t |-> "*ast.CallExpr", Fun |-> SelectorExpr(expr, x.Sel),
                             Args |-> x.Args]
                       [] OTHER -> expr
         IN selectorFold(next, Tail(ps))

selectorFn(m) == selectorFold(m.Left, m.Right.items)

structTypeFn(m) ==
    [t |-> "*ast.StructType",
     Fields |-> [t |-> "*ast.FieldList",
                 List |-> Appended("[]*ast.Field",
                     [i \in 1..Len(m.items) |->
                         [t |-> "*ast.Field",
                          Names |-> Slice("[]*ast.Ident", <<m.items[i].Left>>),
                          Type |-> m.items[i].Right]])]]

typeDeclFn(m) ==
    [t |-> "*ast.GenDecl", Tok |-> Token("TYPE"),
     Specs |-> Slice("[]ast.Spec",
                     <<[t |-> "*ast.TypeSpec", Name |-> m.Left, Type |-> m.Right]>>)]

exprStmtFn(m) == [t |-> "*ast.ExprStmt", X |-> m]

statementListFn(m) ==
    Slice("[]ast.Stmt",
          [i \in 1..Len(m.items) |->
              CASE IsExpr(m.items[i]) -> exprStmtFn(m.items[i])
                [] IsStmt(m.items[i]) -> m.items[i]
                [] OTHER -> Nil])

incDecStmtFn(m) == [t |-> "*ast.IncDecStmt", X |-> m.Right, Tok |-> m.Left]

functionDeclFn(m) ==
    [t |-> "*ast.FuncDecl", Name |-> m.Left,
     Type |-> [t |-> "*ast.FuncType",
               Params |-> [t |-> "*ast.FieldList", List |-> NilSlice("[]*ast.Field")]],
     Body |-> [t |-> "*ast.BlockStmt", List |-> m.Right]]

importDeclFn(m) ==
    [t |-> "*ast.GenDecl", Tok |-> Token("IMPORT"),
     Specs |-> Appended("[]ast.Spec",
                        [i \in 1..Len(m.items) |->
                            [t |-> "*ast.ImportSpec", Path |-> m.items[i]]])]

qualifiedIdentFn(m) == SelectorExpr(m.Left, m.Right)

blockFn(m) ==
    CASE m.t = "[]ast.Stmt" -> [t |-> "*ast.BlockStmt", List |-> m]
      [] IsStmt(m) -> [t |-> "*ast.BlockStmt", List |-> Slice("[]ast.Stmt", <<m>>)]
      [] OTHER -> Nil

\* A variant of the closure of IfStmt that stores the result of the type
\* assertion whether it held or not: a nil *ast.BlockStmt when it did not.
ifStmtFnTypedNil(m) ==
    [t |-> "*ast.IfStmt", Cond |-> m.Left, Body |-> m.Right.Left,
     Else |-> IF m.Right.Right.t = "*ast.BlockStmt" THEN m.Right.Right
              ELSE [t |-> "*ast.BlockStmt", isnil |-> TRUE]]

ifStmtFn(m) ==
    [t |-> "*ast.IfStmt", Cond |-> m.Left, Body |-> m.Right.Left,
     Else |-> IF m.Right.Right.t = "*ast.BlockStmt" THEN m.Right.Right ELSE Nil]

identifierListFn(m) ==
    CASE m.t = "[]interface{}" -> Slice("[]ast.Expr", m.items)
      [] m.t = "*ast.Ident" -> Slice("[]ast.Expr", <<m>>)
      [] OTHER -> Nil

expressionListFn(m) ==
    CASE m.t = "[]interface{}" -> Slice("[]ast.Expr", m.items)
      [] m.t = "*ast.Ident" -> Slice("[]ast.Expr", <<m>>)
      [] m.t = "*ast.BasicLit" -> Slice("[]ast.Expr", <<m>>)
      [] OTHER -> Nil

assignStmtFn(m, tok) ==
    [t |-> "*ast.AssignStmt", Lhs |-> m.Left, Tok |-> Token(tok), Rhs |-> m.Right]

declStmtFn(m) ==
    [t |-> "*ast.DeclStmt",
     Decl |-> [t |-> "*ast.GenDecl", Tok |-> Token("VAR"),
               Specs |-> Slice("[]ast.Spec",
                   <<[t |-> "*ast.ValueSpec",
                      Names |-> Slice("[]*ast.Ident", <<m.Left>>),
                      Type |-> m.Right]>>)]]

forStmtFn(m) ==
    [t |-> "*ast.ForStmt", Init |-> m.items[1], Cond |-> m.items[2],
     Post |-> m.items[3], Body |-> m.items[4]]

\* A variant of the closure of ExprSwitchStmt that puts each clause in
\* front of the clauses before it.
exprSwitchStmtFnReversed(m) ==
    LET clause(v) ==
            CASE v.t = "*ast.BlockStmt" ->
                    <<[t |-> "*ast.CaseClause", List |-> NilSlice("[]ast.Expr"),
                       Body |-> v.List]>>
              [] v.t = "MatchedPair" ->
                    <<[t |-> "*ast.CaseClause", List |-> v.Left, Body |-> v.Right.List]>>
              [] OTHER -> <<>>
        clauses[i \in 0..Len(m.items)] ==
            IF i = 0 THEN <<>> ELSE clause(m.items[i]) \o clauses[i - 1]
    IN [t |-> "*ast.SwitchStmt",
        Body |-> [t |-> "*ast.BlockStmt",
                  List |-> Appended("[]ast.Stmt", clauses[Len(m.items)])]]

exprSwitchStmtFn(m) ==
    LET clause(v) ==
            CASE v.t = "*ast.BlockStmt" ->
                    <<[t |-> "*ast.CaseClause", List |-> NilSlice("[]ast.Expr"),
                       Body |-> v.List]>>
              [] v.t = "MatchedPair" ->
                    <<[t |-> "*ast.CaseClause", List |-> v.Left, Body |-> v.Right.List]>>
              [] OTHER -> <<>>
        clauses[i \in 0..Len(m.items)] ==
            IF i = 0 THEN <<>> ELSE clauses[i - 1] \o clause(m.items[i])
    IN [t |-> "*ast.SwitchStmt",
        Body |-> [t |-> "*ast.BlockStmt",
                  List |-> Appended("[]ast.Stmt", clauses[Len(m.items)])]]

\* A variant of the closure of SourceFile that puts the top-level
\* declarations before the imports.
sourceFileFnTopFirst(m) ==
    [t |-> "*ast.File", Name |-> m.items[1],
     Decls |-> Appended("[]ast.Decl", m.items[3].items \o m.items[2].items)]

sourceFileFn(m) ==
    [t |-> "*ast.File", Name |-> m.items[1],
     Decls |-> Appended("[]ast.Decl", m.items[2].items \o m.items[3].items)]

\* f(matched) for the closure f of a Map.
MapFunc(f, m) ==
    CASE f.fn = "MapConst" -> f.v
      [] f.fn = "Ident" -> NewIdent(m)
      [] f.fn = "QuotedString" -> quotedStringFn(m)
      [] f.fn = "decimalFloatLit" -> decimalFloatLitFn(m)
      [] f.fn = "nonZeroDecimalLit" -> nonZeroDecimalLitFn(m)
      [] f.fn = "decimalLit" -> BasicLit("INT", m.str)
      [] f.fn = "RuneLit" -> runeLitFn(m)
      [] f.fn = "stringLit" -> stringLitFn(m)
      [] f.fn = "BinaryExpr" -> binaryExprFn(m)
      [] f.fn = "UnaryExpr" -> unaryExprFn(m)
      [] f.fn = "CallExpr" -> callExprFn(m)
      [] f.fn = "SelectorCall" -> selectorCallFn(m)
      [] f.fn = "Selector" -> selectorFn(m)
      [] f.fn = "StructType" -> structTypeFn(m)
      [] f.fn = "TypeDecl" -> typeDeclFn(m)
      [] f.fn = "StatementList" -> statementListFn(m)
      [] f.fn = "ExprStmt" -> exprStmtFn(m)
      [] f.fn = "IncDecStmt" -> incDecStmtFn(m)
      [] f.fn = "DoExpr" -> m
      [] f.fn = "FunctionDecl" -> functionDeclFn(m)
      [] f.fn = "ImportDecl" -> importDeclFn(m)
      [] f.fn = "QualifiedIdent" -> qualifiedIdentFn(m)
      [] f.fn = "Block" -> blockFn(m)
      [] f.fn = "IfStmt" -> ifStmtFn(m)
      [] f.fn = "IdentifierList" -> identifierListFn(m)
      [] f.fn = "ExpressionList" -> expressionListFn(m)
      [] f.fn = "Define" -> assignStmtFn(m, "DEFINE")
      [] f.fn = "Assignment" -> assignStmtFn(m, "ASSIGN")
      [] f.fn = "DeclStmt" -> declStmtFn(m)
      [] f.fn = "ForStmt" -> forStmtFn(m)
      [] f.fn = "ExprSwitchStmt" -> exprSwitchStmtFn(m)
      [] f.fn = "SourceFile" -> sourceFileFn(m)

\* f(matched) for the closure f of a Pred.
PredFunc(f, m) ==
    CASE f.fn = "unicode.IsSpace" -> IsSpace(m.rune)
      [] f.fn = "QuotedString" -> m.rune # "\""
      [] f.fn = "decimalDigit" -> IsDigit(m.rune)
      [] f.fn = "nonZeroDigit" -> m # RuneV("0")
      [] f.fn = "Keyword" -> m.str = f.k
      [] f.fn = "Test_Pred" -> m = RuneV(f.r)

-----------------------------------------------------------------------------
(* Running a parser: the bodies of the closures the kernel returns.        *)

RECURSIVE Apply(_, _, _)

ParseLiteral(s, input) ==
    IF HasPrefix(Remaining(input), s)
    THEN Result(Advance(input, Len(s)), Str(s), Nil)
    ELSE Result(input, Nil,
                NewParseError(input.Offset,
                              <<"wanted a literal %q, got: %q", s, Peek(input)>>))

\* The loop of Identifier over the runes of rem from byte i on.
RECURSIVE IdentifierLoop(_, _, _)
IdentifierLoop(rem, i, match) ==
    IF i >= Len(rem) THEN [err |-> FALSE, rune |-> "", match |-> match]
    ELSE LET d == DecodeRuneInString(SubSeq(rem, i + 1, Len(rem)))
             r == d.r
         IN IF i = 0 /\ ~IsLetter(r) /\ r # "_"
            THEN [err |-> TRUE, rune |-> r, match |-> match]
            ELSE IF ~IsLetter(r) /\ r # "_" /\ ~IsDigit(r)
            THEN [err |-> FALSE, rune |-> "", match |-> match]
            ELSE IdentifierLoop(rem, i + d.size, match \o EncodeRune(r))

ParseIdentifier(input) ==
    LET l == IdentifierLoop(Remaining(input), 0, <<>>)
    IN IF l.err
       THEN Result(input, Nil,
                   NewParseError(input.Offset, <<"wanted identifier, got %q", l.rune>>))
       ELSE Result(Advance(input, Len(l.match)), Str(l.match), Nil)

\* A variant of Pair that returns the cursor of p1 when p2 fails.
ParsePairPartial(p1, p2, input, env) ==
    LET r1 == Apply(p1, input, env)
        r2 == Apply(p2, r1.output, env)
    IN CASE r1.diverged -> r1
         [] r1.err # Nil -> Result(input, Nil, r1.err)
         [] r2.diverged -> r2
         [] r2.err # Nil -> Result(r1.output, Nil, r2.err)
         [] OTHER -> Result(r2.output, MatchedPair(r1.matched, r2.matched), Nil)

\* A variant of Pair that reports the failure of p2 at its own offset.
ParsePairOwnOffset(p1, p2, input, env) ==
    LET r1 == Apply(p1, input, env)
        r2 == Apply(p2, r1.output, env)
    IN CASE r1.diverged -> r1
         [] r1.err # Nil -> Result(input, Nil, r1.err)
         [] r2.diverged -> r2
         [] r2.err # Nil ->
              Result(input, Nil, NewParseError(input.Offset, r2.err.Message))
         [] OTHER -> Result(r2.output, MatchedPair(r1.matched, r2.matched), Nil)

ParsePair(p1, p2, input, env) ==
    LET r1 == Apply(p1, input, env)
        r2 == Apply(p2, r1.output, env)
    IN CASE r1.diverged -> r1
         [] r1.err # Nil -> Result(input, Nil, r1.err)
         [] r2.diverged -> r2
         [] r2.err # Nil -> Result(input, Nil, r2.err)
         [] OTHER -> Result(r2.output, MatchedPair(r1.matched, r2.matched), Nil)

\* The loop of Sequence: r the cursor, matches the payloads so far.
RECURSIVE SequenceLoop(_, _, _, _, _)
SequenceLoop(ps, input, r, matches, env) ==
    LET x == Apply(ps[1], r, env)
    IN CASE Len(ps) = 0 -> Result(r, matches, Nil)
         [] x.diverged -> x
         [] x.err # Nil -> Result(input, Nil, x.err)
         [] OTHER ->
              SequenceLoop(Tail(ps), input, x.output, AppendTo(matches, x.matched), env)

ParseSequence(ps, input, env) == SequenceLoop(ps, input, input, NilSlice("[]interface{}"), env)

\* Left runs the closure Pair(p1, p2) returns and keeps what that returns
\* but for the payload: pair is the result of that closure (ParsePair).
ParseLeft(p1, p2, input, env) ==
    LET r1 == Apply(p1, input, env)
        r2 == Apply(p2, r1.output, env)
        pair == CASE r1.diverged -> r1
                  [] r1.err # Nil -> Result(input, Nil, r1.err)
                  [] r2.diverged -> r2
                  [] r2.err # Nil -> Result(input, Nil, r2.err)
                  [] OTHER -> Result(r2.output, MatchedPair(r1.matched, r2.matched), Nil)
    IN CASE pair.diverged -> pair
         [] pair.err # Nil -> Result(pair.output, Nil, pair.err)
         [] OTHER -> Result(pair.output, pair.matched.Left, Nil)

ParseRight(p1, p2, input, env) ==
    LET r1 == Apply(p1, input, env)
        r2 == Apply(p2, r1.output, env)
        pair == CASE r1.diverged -> r1
                  [] r1.err # Nil -> Result(input, Nil, r1.err)
                  [] r2.diverged -> r2
                  [] r2.err # Nil -> Result(input, Nil, r2.err)
                  [] OTHER -> Result(r2.output, MatchedPair(r1.matched, r2.matched), Nil)
    IN CASE pair.diverged -> pair
         [] pair.err # Nil -> Result(pair.output, Nil, pair.err)
         [] OTHER -> Result(pair.output, pair.matched.Right, Nil)

\* The for loop of OneOrMore and of ZeroOrMore: it ends when the input is
\* finished or p fails, and its cursor is then the one p returned last.  A p
\* that succeeds on an unfinished cursor without moving it is run again on the
\* same cursor, for ever.  The loop is in the state Running(output, matches)
\* before an iteration and in the state Ended(res) once it has ended with
\* the result res.
Running(output, matches) ==
    [running |-> TRUE, output |-> output, matches |-> matches]

Ended(res) == [running |-> FALSE, res |-> res]

\* One iteration of the loop.
LoopBody(p, s, env) ==
    LET r == Apply(p, s.output, env)
    IN CASE ~s.running -> s
         [] Finished(s.output) -> Ended(Result(s.output, List(s.matches), Nil))
         [] r.diverged -> Ended(r)
         [] r.err # Nil -> Ended(Result(r.output, List(s.matches), Nil))
         [] r.output = s.output -> Ended(Diverged(s.output))
         [] OTHER -> Running(r.output, Append(s.matches, r.matched))

\* 2^k iterations of the loop from the state s on, the second half of them
\* only if the first half has not ended the loop.
RECURSIVE Iterations(_, _, _, _)
Iterations(k, p, s, env) ==
    IF k = 0 THEN LoopBody(p, s, env)
    ELSE CHOOSE t \in {IF m.running THEN Iterations(k - 1, p, m, env) ELSE m :
                          m \in {Iterations(k - 1, p, s, env)}} : TRUE

\* The loop from the state s on, run to its end in blocks of 2^k, 2^(k+1),
\* ... iterations.
RECURSIVE LoopFrom(_, _, _, _)
LoopFrom(k, p, s, env) ==
    CHOOSE t \in {IF m.running THEN LoopFrom(k + 1, p, m, env) ELSE m :
                     m \in {Iterations(k, p, s, env)}} : TRUE

RepeatLoop(p, output, matches, env) ==
    LoopFrom(0, p, Running(output, matches), env).res

\* A variant of OneOrMore that accepts no match at all.
ParseOneOrMoreLenient(p, input, env) == RepeatLoop(p, input, <<>>, env)

ParseOneOrMore(p, input, env) ==
    LET r == Apply(p, input, env)
    IN CASE r.diverged -> r
         [] r.err # Nil -> Result(r.output, Nil, r.err)
         [] OTHER -> RepeatLoop(p, r.output, <<r.matched>>, env)

ParseZeroOrMore(p, input, env) == RepeatLoop(p, input, <<>>, env)

\* A variant of Optional that returns a cursor at the start of the content
\* when p fails.
ParseOptionalRewind(p, input, env) ==
    LET r == Apply(p, input, env)
    IN CASE r.diverged -> r
         [] r.err # Nil -> Result(NewSource(input.Content), Nil, Nil)
         [] OTHER -> Result(r.output, r.matched, Nil)

ParseOptional(p, input, env) ==
    LET r == Apply(p, input, env)
    IN CASE r.diverged -> r
         [] r.err # Nil -> Result(input, Nil, Nil)
         [] OTHER -> Result(r.output, r.matched, Nil)

ParseAnyChar(input) ==
    LET d == PeekRune(input)
    IN CASE d.r = RuneError /\ d.size = 1 ->
              Result(input, Nil,
                     NewParseError(input.Offset,
                         <<"wanted any character, got invalid UTF-8 encoding">>))
         [] d.r = RuneError /\ d.size # 1 ->
              Result(input, Nil,
                     NewParseError(input.Offset, <<"wanted any character, got \"\"">>))
         [] OTHER -> Result(Advance(input, d.size), RuneV(d.r), Nil)

\* A variant of Pred that reports "predicate failed" when p fails, too.
ParsePredMasking(p, f, input, env) ==
    LET r == Apply(p, input, env)
    IN CASE r.diverged -> r
         [] r.err = Nil /\ PredFunc(f, r.matched) -> Result(r.output, r.matched, Nil)
         [] OTHER ->
              Result(input, Nil, NewParseError(input.Offset, <<"predicate failed">>))

ParsePred(p, f, input, env) ==
    LET r == Apply(p, input, env)
    IN CASE r.diverged -> r
         [] r.err # Nil -> Result(input, Nil, r.err)
         [] PredFunc(f, r.matched) -> Result(r.output, r.matched, Nil)
         [] OTHER ->
              Result(input, Nil, NewParseError(input.Offset, <<"predicate failed">>))

ParseMap(p, f, input, env) ==
    LET r == Apply(p, input, env)
    IN CASE r.diverged -> r
         [] r.err # Nil -> r
         [] OTHER -> Result(r.output, MapFunc(f, r.matched), Nil)

\* A variant of ChoiceLoop that keeps the error of the alternative that
\* failed first.
RECURSIVE ChoiceLoopFirstError(_, _, _, _)
ChoiceLoopFirstError(ps, input, err, env) ==
    LET r == Apply(ps[1], input, env)
    IN CASE Len(ps) = 0 -> Result(input, Nil, err)
         [] r.diverged -> r
         [] r.err = Nil -> Result(r.output, r.matched, Nil)
         [] OTHER ->
              ChoiceLoopFirstError(Tail(ps), input, IF err = Nil THEN r.err ELSE err, env)

\* The loop of Choice: err is the error of the alternative tried last.
RECURSIVE ChoiceLoop(_, _, _, _)
ChoiceLoop(ps, input, err, env) ==
    LET r == Apply(ps[1], input, env)
    IN CASE Len(ps) = 0 -> Result(input, Nil, err)
         [] r.diverged -> r
         [] r.err = Nil -> Result(r.output, r.matched, Nil)
         [] OTHER -> ChoiceLoop(Tail(ps), input, r.err, env)

ParseChoice(ps, input, env) == ChoiceLoop(ps, input, Nil, env)

ParseRune(r, input) ==
    LET d == PeekRune(input)
        c == d.r
    IN CASE c = RuneError /\ d.size = 1 ->
              Result(input, Nil,
                     NewParseError(input.Offset,
                         <<"wanted a literal %q, got invalid UTF-8 encoding", r>>))
         [] c = RuneError /\ d.size # 1 ->
              Result(input, Nil,
                     NewParseError(input.Offset, <<"wanted a literal %q, got \"\"", r>>))
         [] r # c ->
              Result(input, Nil,
                     NewParseError(input.Offset, <<"wanted a literal %q, got %q", r, c>>))
         [] OTHER -> Result(Advance(input, d.size), RuneV(c), Nil)

ParseNoop(input) == Result(input, Nil, Nil)

\* p.Parse(input).  env holds, for each named parser, its result at each
\* offset of the input (see Tables).
Apply(p, input, env) ==
    CASE p.k = "Literal" -> ParseLiteral(p.s, input)
      [] p.k = "Identifier" -> ParseIdentifier(input)
      [] p.k = "Pair" -> ParsePair(p.p1, p.p2, input, env)
      [] p.k = "Sequence" -> ParseSequence(p.ps, input, env)
      [] p.k = "Left" -> ParseLeft(p.p1, p.p2, input, env)
      [] p.k = "Right" -> ParseRight(p.p1, p.p2, input, env)
      [] p.k = "OneOrMore" -> ParseOneOrMore(p.p, input, env)
      [] p.k = "ZeroOrMore" -> ParseZeroOrMore(p.p, input, env)
      [] p.k = "Optional" -> ParseOptional(p.p, input, env)
      [] p.k = "AnyChar" -> ParseAnyChar(input)
      [] p.k = "Pred" -> ParsePred(p.p, p.f, input, env)
      [] p.k = "Map" -> ParseMap(p.p, p.f, input, env)
      [] p.k = "Choice" -> ParseChoice(p.ps, input, env)
      [] p.k = "Rune" -> ParseRune(p.r, input)
      [] p.k = "Noop" -> ParseNoop(input)
      [] p.k = "Named" -> env[p.name][input.Offset]

(* The parsers that refer to themselves or to one another (Expr, Statement, *)
(* Block, StatementList) are run through tables: a table holds the result  *)
(* of a named parser at every offset of an input, and is computed from the *)
(* tables of the forms nested one level deeper.  Tables(c) are the tables  *)
(* for forms nested at most MaxDepth deep; the result of a form nested     *)
(* deeper is TooDeep.  A table is computed before the tables that look it  *)
(* up: binding it through a one-element set makes it a value.              *)

MaxDepth == 4

TooDeep(c) ==
    [output |-> NewSource(c), matched |-> Nil, err |-> Nil,
     diverged |-> TRUE, toodeep |-> TRUE]

Env(e, s, b, l) == [Expr |-> e, Statement |-> s, Block |-> b, StatementList |-> l]

\* The tables of an input none of whose forms is looked at.
NoTables(c) ==
    LET none == [o \in 0..Len(c) |-> TooDeep(c)]
    IN Env(none, none, none, none)

\* A result that is not TooDeep looked up no table entry that is, and stands.
Table(name, c, env) ==
    [o \in 0..Len(c) |->
        IF env[name][o].toodeep THEN Apply(Lookup(name), Source(c, o), env)
        ELSE env[name][o]]

\* env with the table of the parser name computed from env.
With(name, c, env) ==
    CHOOSE next \in {[v EXCEPT ![name] = Table(name, c, v)] : v \in {env}} : TRUE

Layer(c, prev) ==
    With("StatementList", c,
         With("Block", c, With("Statement", c, With("Expr", c, prev))))

RECURSIVE TablesTo(_, _)
TablesTo(c, n) ==
    IF n = 0 THEN NoTables(c) ELSE Layer(c, TablesTo(c, n - 1))

Tables(c) == TablesTo(c, MaxDepth)

\* p.Parse(input) with the tables of the input.
Run(p, input) ==
    CHOOSE r \in {Apply(p, input, env) : env \in {Tables(input.Content)}} : TRUE

\* A variant of Parse that returns the payload of SourceFile and drops its
\* error.
ParseResultLenient(r) ==
    [file |-> r.matched, err |-> Nil, diverged |-> r.diverged]

\* What Parse returns when SourceFile has returned r.
ParseResult(r) ==
    IF r.diverged THEN [file |-> Nil, err |-> Nil, diverged |-> TRUE]
    ELSE IF r.err # Nil THEN [file |-> Nil, err |-> r.err, diverged |-> FALSE]
    ELSE [file |-> r.matched, err |-> Nil, diverged |-> FALSE]

\* Parse(input string) (*ast.File, error)
Parse(input) == ParseResult(Run(SourceFile, NewSource(input)))

-----------------------------------------------------------------------------
(* The state machine.  content is a source text, src a cursor into it and  *)
(* call the call made last, with its input and what it returned.           *)

MaxLen == 3
MaxAdvance == 2

\* The bytes of the texts the kernel parsers are run on: two letters and
\* the two bytes of U+00E9, either of which alone is an invalid encoding.
Alphabet == {"a", "b", "C3", "A9"}

Strings == UNION {[1..n -> Alphabet] : n \in 0..MaxLen}

NoCall == [op |-> "none"]

\* Parsers built from the kernel's constructors.
Atoms ==
    {Literal(<<"a">>), Literal(<<"a", "b">>), Identifier, AnyChar, Noop,
     Rune("U+00E9")}

Preds ==
    {Pred(p, [fn |-> "Keyword", k |-> <<"a">>]) :
        p \in {Literal(<<"a">>), Literal(<<"a", "b">>), Identifier}}
    \cup {Pred(p, [fn |-> "Test_Pred", r |-> r]) :
            p \in {AnyChar, Rune("U+00E9")}, r \in {"a", "U+00E9"}}

Unary(S) ==
    UNION {{OneOrMore(p), ZeroOrMore(p), Optional(p), MapConst(p, Token("ADD"))} :
              p \in S}

Binary(S) ==
    UNION {{Pair(p, q), Left(p, q), Right(p, q), Choice(<<p, q>>),
            Sequence(<<p, q>>)} : p \in S, q \in S}

Kernel ==
    Atoms \cup Preds \cup Unary(Atoms \cup Preds) \cup Binary(Atoms)
    \cup Unary(Binary({Literal(<<"a">>), Literal(<<"a", "b">>)}))
    \cup {Sequence(<<>>), Choice(<<>>), Rune("U+FFFD"),
          Choice(<<Literal(<<"a", "b">>), Rune("U+00E9"), Literal(<<"a">>)>>),
          Choice(<<Literal(<<"a">>), ZeroOrMore(Noop)>>),
          Sequence(<<Literal(<<"a">>), AnyChar, Literal(<<"a">>)>>)}

Init ==
    /\ content \in Strings
    /\ src = NewSource(content)
    /\ call = NoCall

\* src.Advance(n)
DoAdvance(n) ==
    /\ call = NoCall
    /\ src' = Advance(src, n)
    /\ UNCHANGED <<content, call>>

\* p.Parse(src)
DoApply(p, env) ==
    /\ call = NoCall
    /\ call' = [op |-> "Parse", p |-> p, input |-> src, res |-> Apply(p, src, env)]
    /\ UNCHANGED <<content, src>>

Next ==
    \/ \E n \in 1..MaxAdvance : DoAdvance(n)
    \/ \E p \in Kernel : DoApply(p, NoTables(content))

Spec == Init /\ [][Next]_vars

-----------------------------------------------------------------------------
(* The grammar rules, run on texts of the language.                        *)

\* Texts the grammar rules are run on, from each of their offsets.
Snippets ==
    \* the empty text
    { <<>>,
    \* (if (= a 1) (do (f)) (g))
      <<"(", "i", "f", " ", "(", "=", " ", "a", " ", "1", ")", " ", "(",
        "d", "o", " ", "(", "f", ")", ")", " ", "(", "g", ")", ")">>,
    \* (if a (f)
      <<"(", "i", "f", " ", "a", " ", "(", "f", ")">>,
    \* (define (a b) (1 2))
      <<"(", "d", "e", "f", "i", "n", "e", " ", "(", "a", " ", "b", ")",
        " ", "(", "1", " ", "2", ")", ")">>,
    \* (assign a "s")
      <<"(", "a", "s", "s", "i", "g", "n", " ", "a", " ", "\"", "s",
        "\"", ")">>,
    \* (for (define i 0) (< i 2) (inc i) (f i))
      <<"(", "f", "o", "r", " ", "(", "d", "e", "f", "i", "n", "e", " ",
        "i", " ", "0", ")", " ", "(", "<", " ", "i", " ", "2", ")", " ",
        "(", "i", "n", "c", " ", "i", ")", " ", "(", "f", " ", "i", ")",
        ")">>,
    \* (switch (case 1 (f)) (default (g)))
      <<"(", "s", "w", "i", "t", "c", "h", " ", "(", "c", "a", "s", "e",
        " ", "1", " ", "(", "f", ")", ")", " ", "(", "d", "e", "f", "a",
        "u", "l", "t", " ", "(", "g", ")", ")", ")">>,
    \* (sel a b (c 1))
      <<"(", "s", "e", "l", " ", "a", " ", "b", " ", "(", "c", " ", "1",
        ")", ")">>,
    \* &(f 1.5 'a' 10)
      <<"&", "(", "f", " ", "1", ".", "5", " ", "'", "a", "'", " ", "1",
        "0", ")">>,
    \* (var x int)
      <<"(", "v", "a", "r", " ", "x", " ", "i", "n", "t", ")">>,
    \* (package p)\n(import "a")\n(type T (struct (a int)))\n(func f () (g))
      <<"(", "p", "a", "c", "k", "a", "g", "e", " ", "p", ")", "\n", "(",
        "i", "m", "p", "o", "r", "t", " ", "\"", "a", "\"", ")", "\n",
        "(", "t", "y", "p", "e", " ", "T", " ", "(", "s", "t", "r", "u",
        "c", "t", " ", "(", "a", " ", "i", "n", "t", ")", ")", ")", "\n",
        "(", "f", "u", "n", "c", " ", "f", " ", "(", ")", " ", "(", "g",
        ")", ")">>,
    \* (package p) (func f ( )
      <<"(", "p", "a", "c", "k", "a", "g", "e", " ", "p", ")", " ", "(",
        "f", "u", "n", "c", " ", "f", " ", "(", " ", ")">>,
    \*  a.b
      <<" ", "a", ".", "b", " ">>,
    \* ab aé <C3>
      <<"a", "b", " ", "a", "C3", "A9", " ", "C3">>,
    \* a<U+FFFD>b, the replacement character in its three bytes
      <<"a", "EF", "BF", "BD", "b">>,
    \* "ab, a string that is not closed
      <<"\"", "a", "b">>,
    \* "a<U+FFFD>b, a string that is not closed and holds U+FFFD
      <<"\"", "a", "EF", "BF", "BD", "b">>,
    \* 007 120<U+0663>, the last rune an arabic-indic digit
      <<"0", "0", "7", " ", "1", "2", "0", "D9", "A3">>,
    \* (sel a)
      <<"(", "s", "e", "l", " ", "a", ")">>,
    \* (switch)
      <<"(", "s", "w", "i", "t", "c", "h", ")">>,
    \* (done)
      <<"(", "d", "o", "n", "e", ")">>,
    \* (double x)
      <<"(", "d", "o", "u", "b", "l", "e", " ", "x", ")">>,
    \* (define x)
      <<"(", "d", "e", "f", "i", "n", "e", " ", "x", ")">>,
    \* (do)
      <<"(", "d", "o", ")">>,
    \* (if a b)
      <<"(", "i", "f", " ", "a", " ", "b", ")">>,
    \* (if a (f) (g) (h))
      <<"(", "i", "f", " ", "a", " ", "(", "f", ")", " ", "(", "g",
        ")", " ", "(", "h", ")", ")">> }

\* The package-level parsers of the grammar.
Rules ==
    {QuotedString, WhitespaceChar, OneOrMoreWhitespaceChars,
     ZeroOrMoreWhitespaceChars, Ident, QualifiedIdent, OperandName, Expr,
     Statement, Block, StatementList, decimalDigit, decimalFloatLit,
     decimalLit, escapedChar, RuneLit, stringLit, basicLit, PackageClause,
     BinaryOp, BinaryExpr, UnaryOp, UnaryExpr, CallExpr, SelectorCall,
     Selector, StructType, TypeDecl, ExprStmt, IncDecStmt, DoExpr,
     FunctionDecl, TopLevelDecl, ImportDecl, IfStmt, IdentifierList,
     ExpressionList, Define, DeclStmt, Assignment, SimpleStmt, ForStmt,
     ExprSwitchStmt, SourceFile}

InitRules ==
    /\ content \in Snippets
    /\ src = NewSource(content)
    /\ call = NoCall

\* The tables of the texts.
SnippetTables == [c \in Snippets |-> Tables(c)]

NextRules ==
    \/ \E n \in 1..MaxAdvance : DoAdvance(n)
    \/ \E p \in Rules \cup Kernel : DoApply(p, SnippetTables[content])

SpecRules == InitRules /\ [][NextRules]_vars

-----------------------------------------------------------------------------
(* Parse, run on source files.                                             *)

MaxForms == 3

\* What a source file starts with: nothing, a package clause, and a package
\* clause between white space that names the package if.
Packages ==
    \* the empty text
    { <<>>,
    \* (package m)
      <<"(", "p", "a", "c", "k", "a", "g", "e", " ", "m", ")">>,
    \*  (package if)\n
      <<" ", "(", "p", "a", "c", "k", "a", "g", "e", " ", "i", "f", ")",
        "\n">> }

\* What follows: an import declaration, a function declaration, a type
\* declaration, and text that is no declaration.
Forms ==
    \* (import "a")
    { <<"(", "i", "m", "p", "o", "r", "t", " ", "\"", "a", "\"", ")">>,
    \* (func f () (g 1))\n
      <<"(", "f", "u", "n", "c", " ", "f", " ", "(", ")", " ", "(", "g",
        " ", "1", ")", ")", "\n">>,
    \*  (type T (struct))
      <<" ", "(", "t", "y", "p", "e", " ", "T", " ", "(", "s", "t", "r",
        "u", "c", "t", ")", ")">>,
    \* x
      <<"x">> }

RECURSIVE Concat(_)
Concat(ss) == IF ss = <<>> THEN <<>> ELSE ss[1] \o Concat(Tail(ss))

Programs ==
    {pkg \o Concat(fs) :
        pkg \in Packages, fs \in UNION {[1..n -> Forms] : n \in 0..MaxForms}}

\* Whole files, the last of them with a type declaration that fails past
\* its head.
Files ==
    \* (package m)(func f ())
    { <<"(", "p", "a", "c", "k", "a", "g", "e", " ", "m", ")", "(",
        "f", "u", "n", "c", " ", "f", " ", "(", ")", ")">>,
    \* (package m)\n(import "a")\n(type T (struct))\n
      <<"(", "p", "a", "c", "k", "a", "g", "e", " ", "m", ")",
        "\n", "(", "i", "m", "p", "o", "r", "t", " ", "\"", "a",
        "\"", ")", "\n", "(", "t", "y", "p", "e", " ", "T", " ",
        "(", "s", "t", "r", "u", "c", "t", ")", ")", "\n">>,
    \* (package m) (func f ()) x
      <<"(", "p", "a", "c", "k", "a", "g", "e", " ", "m", ")", " ",
        "(", "f", "u", "n", "c", " ", "f", " ", "(", ")", ")", " ",
        "x">>,
    \* (package m)
      <<"(", "p", "a", "c", "k", "a", "g", "e", " ", "m", ")">>,
    \* (package m)(type T x)
      <<"(", "p", "a", "c", "k", "a", "g", "e", " ", "m", ")", "(",
        "t", "y", "p", "e", " ", "T", " ", "x", ")">> }

InitFile ==
    /\ content \in Programs \cup Files
    /\ src = NewSource(content)
    /\ call = NoCall

\* Parse(content): sourceFile is what SourceFile returns inside Parse.
DoParse ==
    /\ call = NoCall
    /\ \E r \in {Run(SourceFile, NewSource(content))} :
          call' = [op |-> "jo.Parse", input |-> content, sourceFile |-> r,
                   res |-> ParseResult(r)]
    /\ UNCHANGED <<content, src>>

NextFile == DoParse

SpecFile == InitFile /\ [][NextFile]_vars

-----------------------------------------------------------------------------
(* Advance, called several times in a row.                                 *)

MaxSteps == 3

\* The cursor of a new Source, before any call of Advance.
InitAdvance ==
    /\ content \in Strings
    /\ src = NewSource(content)
    /\ call = [op |-> "Advance", ns |-> <<>>, receiver |-> NewSource(content),
               after |-> NewSource(content)]

\* src = src.Advance(n): ns are the arguments so far, receiver the cursor
\* Advance was called on and after that cursor once Advance has returned.
DoAdvanceAgain(n) ==
    /\ Len(call.ns) < MaxSteps
    /\ \E receiver \in {src} :
          /\ src' = Advance(receiver, n)
          /\ call' = [op |-> "Advance", ns |-> Append(call.ns, n),
                      receiver |-> src, after |-> receiver]
    /\ UNCHANGED content

NextAdvance == \E n \in 0..MaxAdvance : DoAdvanceAgain(n)

SpecAdvance == InitAdvance /\ [][NextAdvance]_vars

-----------------------------------------------------------------------------
(* White space added to a text: between the parts of a form in             *)
(* parentheses, and before or after a source file.                         *)

MaxPad == 2

\* White space runes, in their bytes: space, line feed, no-break space.
Spaces == {<<" ">>, <<"\n">>, <<"C2", "A0">>}

\* The strings of one to MaxPad white space runes.
Pads == {Concat(ws) : ws \in UNION {[1..n -> Spaces] : n \in 1..MaxPad}}

\* The forms in parentheses, each with the parser of its rule.
ListForms ==
    \* (package m)
    { [p |-> PackageClause,
       text |-> <<"(", "p", "a", "c", "k", "a", "g", "e", " ", "m", ")">>],
    \* (import "a")
      [p |-> ImportDecl,
       text |-> <<"(", "i", "m", "p", "o", "r", "t", " ", "\"", "a", "\"", ")">>],
    \* (f 1)
      [p |-> CallExpr,
       text |-> <<"(", "f", " ", "1", ")">>],
    \* (+ a 1)
      [p |-> BinaryExpr,
       text |-> <<"(", "+", " ", "a", " ", "1", ")">>],
    \* (sel a b)
      [p |-> Selector,
       text |-> <<"(", "s", "e", "l", " ", "a", " ", "b", ")">>],
    \* (struct (a int))
      [p |-> StructType,
       text |-> <<"(", "s", "t", "r", "u", "c", "t", " ", "(", "a", " ", "i",
                 "n", "t", ")", ")">>],
    \* (func f () (g))
      [p |-> FunctionDecl,
       text |-> <<"(", "f", "u", "n", "c", " ", "f", " ", "(", ")", " ", "(",
                 "g", ")", ")">>],
    \* (define a 1)
      [p |-> Define,
       text |-> <<"(", "d", "e", "f", "i", "n", "e", " ", "a", " ", "1", ")">>] }

\* The places inside a form where one part ends and the next begins: next
\* to a parenthesis or to white space, the two ends of the text excluded.
Between(text) ==
    {i \in 1..(Len(text) - 1) :
        text[i] \in {"(", ")", " "} \/ text[i + 1] \in {"(", ")", " "}}

\* text with w put in after its first i bytes.
Insert(text, i, w) == SubSeq(text, 1, i) \o w \o SubSeq(text, i + 1, Len(text))

InitSpace ==
    /\ content \in {f.text : f \in ListForms} \cup Files
    /\ src = NewSource(content)
    /\ call = NoCall

\* The rule of a form, run on the form and on the form with white space
\* added at a place between two of its parts.
DoInsert(f, i, w) ==
    /\ call = NoCall
    /\ content = f.text
    /\ \E spaced \in {Insert(content, i, w)} :
          call' = [op |-> "Insert", p |-> f.p, at |-> i, input |-> spaced,
                   base |-> Run(f.p, NewSource(content)),
                   res |-> Run(f.p, NewSource(spaced))]
    /\ UNCHANGED <<content, src>>

\* Parse, run on a file and on the file with white space before or after it.
DoPad(w, before) ==
    /\ call = NoCall
    /\ content \in Files
    /\ \E padded \in {IF before THEN w \o content ELSE content \o w} :
          call' = [op |-> "Pad", before |-> before, input |-> padded,
                   base |-> Parse(content), res |-> Parse(padded)]
    /\ UNCHANGED <<content, src>>

NextSpace ==
    \/ \E f \in ListForms : \E i \in Between(f.text) : \E w \in Spaces :
          DoInsert(f, i, w)
    \/ \E w \in Pads : \E before \in BOOLEAN : DoPad(w, before)

SpecSpace == InitSpace /\ [][NextSpace]_vars

-----------------------------------------------------------------------------
(* Two calls of Parse whose steps are interleaved.  A step of a call is    *)
(* one turn of the loop of Sequence inside SourceFile, or its return.      *)
(* content holds the two inputs, src the cursor each call was given, and   *)
(* call the variables of the two calls and the order of their steps.       *)

\* The tables of the files.
FileTables == [c \in Files |-> Tables(c)]

\* The variables of a call of the closure of Sequence as it starts: r, the
\* matches, err, and how many of the parsers it has run.
NewFrame(input) ==
    [input |-> input, pc |-> 0, r |-> input,
     matches |-> NilSlice("[]interface{}"), err |-> Nil,
     returned |-> FALSE, res |-> Nil]

\* One turn of the loop over ps, or, after the last turn or an error, the
\* return through the closure f of Map and through Parse.
StepFrame(frame, ps, f) ==
    IF frame.err # Nil
    THEN [frame EXCEPT !.returned = TRUE,
                       !.res = ParseResult(Result(frame.input, Nil, frame.err))]
    ELSE IF frame.pc = Len(ps)
    THEN [frame EXCEPT !.returned = TRUE,
                       !.res = ParseResult(Result(frame.r, MapFunc(f, frame.matches), Nil))]
    ELSE LET x == Apply(ps[frame.pc + 1], frame.r, FileTables[frame.r.Content])
         IN IF x.err # Nil
            THEN [frame EXCEPT !.pc = frame.pc + 1, !.err = x.err]
            ELSE [frame EXCEPT !.pc = frame.pc + 1, !.r = x.output,
                               !.matches = AppendTo(frame.matches, x.matched)]

\* A variant of StepCall in which r is one variable that every call of the
\* closure reads and writes.
StepCallShared(t, frames) ==
    LET next == StepFrame(frames[t], SourceFile.p.ps, SourceFile.f)
    IN [i \in 1..2 |-> IF i = t THEN next
                       ELSE IF frames[i].returned THEN frames[i]
                       ELSE [frames[i] EXCEPT !.r = next.r]]

\* A step of the call t: it reads and writes the variables of that call
\* and no others.
StepCall(t, frames) ==
    [frames EXCEPT ![t] = StepFrame(frames[t], SourceFile.p.ps, SourceFile.f)]

InitTwo ==
    /\ content \in Files \X Files
    /\ src = <<NewSource(content[1]), NewSource(content[2])>>
    /\ call = [op |-> "Two", order |-> <<>>,
               frames |-> <<NewFrame(NewSource(content[1])),
                            NewFrame(NewSource(content[2]))>>]

DoStep(t) ==
    /\ ~call.frames[t].returned
    /\ call' = [call EXCEPT !.frames = StepCall(t, call.frames),
                            !.order = Append(call.order, t)]
    /\ UNCHANGED <<content, src>>

NextTwo == \E t \in 1..2 : DoStep(t)

SpecTwo == InitTwo /\ [][NextTwo]_vars

-----------------------------------------------------------------------------
(* Properties, stated of the call made last.                               *)

Called(k) == call.op = "Parse" /\ call.p.k = k

\* C1: whenever a parser, a kernel combinator or a grammar rule, returns an
\* error, the cursor it returns has the content and the offset of the input
\* cursor.
C1_FailureKeepsCursor ==
    (call.op = "Parse" /\ Failed(call.res)) =>
        /\ call.res.output.Content = call.input.Content
        /\ call.res.output.Offset = call.input.Offset

\* IfStmt fails past the offset it was run at, where its closing
\* parenthesis is missing.
C1_Witness ==
    /\ call.op = "Parse"
    /\ call.p = IfStmt
    /\ Failed(call.res)
    /\ call.res.err.Offset > call.input.Offset + 2
    /\ call.res.output = call.input

\* C2: when a parser succeeds on a cursor of an input, the cursor it
\* returns is of the same input, at an offset that is at least the offset
\* of the input cursor and at most the length of the input.
C2_SuccessMovesForward ==
    (call.op = "Parse" /\ Succeeded(call.res)) =>
        /\ call.res.output.Content = call.input.Content
        /\ call.input.Offset <= call.res.output.Offset
        /\ call.res.output.Offset <= Len(call.input.Content)

\* Expr succeeds from an offset inside a text and ends before its end.
C2_Witness ==
    /\ call.op = "Parse"
    /\ call.p = Expr
    /\ Succeeded(call.res)
    /\ call.input.Offset > 0
    /\ call.res.output.Offset > call.input.Offset + 2
    /\ call.res.output.Offset < Len(call.input.Content)

\* What the i-th alternative of the Choice called last returns on its input.
Alternative(i) == Apply(call.p.ps[i], call.input, NoTables(content))

\* The lowest-indexed alternative that succeeds is the i-th: no alternative
\* before it succeeds or runs for ever.
FirstSuccess(i) ==
    /\ Succeeded(Alternative(i))
    /\ \A j \in 1..(i - 1) : Failed(Alternative(j))

\* C3: Choice(p1..pN), N >= 1, succeeds iff some alternative succeeds; its
\* cursor and payload are then those of the lowest-indexed alternative that
\* succeeds, whatever the later alternatives would do; when every
\* alternative fails it returns the input cursor and the error of pN.
C3_ChoiceFirstSuccess ==
    (Called("Choice") /\ Len(call.p.ps) >= 1) =>
        LET n == Len(call.p.ps)
        IN /\ \A i \in 1..n :
                FirstSuccess(i) =>
                    /\ Succeeded(call.res)
                    /\ call.res.output = Alternative(i).output
                    /\ call.res.matched = Alternative(i).matched
           /\ (\A i \in 1..n : Failed(Alternative(i))) =>
                    /\ Failed(call.res)
                    /\ call.res.err = Alternative(n).err
                    /\ call.res.output = call.input
           /\ Succeeded(call.res) => \E i \in 1..n : FirstSuccess(i)

\* A Choice whose first alternative fails and whose second succeeds and
\* moves the cursor.
C3_Witness ==
    /\ Called("Choice")
    /\ Len(call.p.ps) >= 2
    /\ Failed(Alternative(1))
    /\ FirstSuccess(2)
    /\ Alternative(2).output.Offset > call.input.Offset
    /\ call.res.output = Alternative(2).output

\* What p returns on the cursor c.
Sub(p, c) == Apply(p, c, NoTables(content))

\* The payloads of the consecutive matches of p from the cursor c on, up to
\* the first failure of p or the end of the input, and the cursor after them.
RECURSIVE Matches(_, _, _)
Matches(p, c, env) ==
    IF Finished(c) \/ Apply(p, c, env).err # Nil
    THEN [items |-> <<>>, output |-> c]
    ELSE LET rest == Matches(p, Apply(p, c, env).output, env)
         IN [items |-> <<Apply(p, c, env).matched>> \o rest.items,
             output |-> rest.output]

\* C4: ZeroOrMore(p) returns no error, and its payload is the list of the
\* consecutive matches of p up to the first failure of p or the end of the
\* input; OneOrMore(p) returns an error iff p fails on the initial cursor,
\* and the error is then the error of p.
C4_Repetition ==
    /\ (Called("ZeroOrMore") /\ ~call.res.diverged) =>
            /\ call.res.err = Nil
            /\ call.res.matched =
                  List(Matches(call.p.p, call.input, NoTables(content)).items)
    /\ Called("ZeroOrMore") => call.res.err = Nil
    /\ Called("OneOrMore") =>
            /\ Failed(call.res) <=> Failed(Sub(call.p.p, call.input))
            /\ Failed(call.res) => call.res.err = Sub(call.p.p, call.input).err

\* ZeroOrMore(p) that stops after two matches at a failure of p before
\* the end of the input.
C4_Witness ==
    /\ Called("ZeroOrMore")
    /\ Succeeded(call.res)
    /\ Len(call.res.matched.items) = 2
    /\ ~Finished(call.res.output)

\* The keywords of Go.
GoKeywords ==
    {<<"b", "r", "e", "a", "k">>, <<"c", "a", "s", "e">>, <<"c", "h", "a", "n">>,
     <<"c", "o", "n", "s", "t">>, <<"c", "o", "n", "t", "i", "n", "u", "e">>,
     <<"d", "e", "f", "a", "u", "l", "t">>, <<"d", "e", "f", "e", "r">>,
     <<"e", "l", "s", "e">>, <<"f", "a", "l", "l", "t", "h", "r", "o", "u", "g", "h">>,
     <<"f", "o", "r">>, <<"f", "u", "n", "c">>, <<"g", "o">>, <<"g", "o", "t", "o">>,
     <<"i", "f">>, <<"i", "m", "p", "o", "r", "t">>,
     <<"i", "n", "t", "e", "r", "f", "a", "c", "e">>, <<"m", "a", "p">>,
     <<"p", "a", "c", "k", "a", "g", "e">>, <<"r", "a", "n", "g", "e">>,
     <<"r", "e", "t", "u", "r", "n">>, <<"s", "e", "l", "e", "c", "t">>,
     <<"s", "t", "r", "u", "c", "t">>, <<"s", "w", "i", "t", "c", "h">>,
     <<"t", "y", "p", "e">>, <<"v", "a", "r">>}

Parsed == call.op = "jo.Parse" /\ ~call.res.diverged /\ call.res.err = Nil

\* C5, one consequence of the round trip: when Parse succeeds, the name of
\* the package of the File is not empty and is an identifier to Go, which a
\* keyword of Go is not.
C5_PackageNameIsGoIdentifier ==
    Parsed =>
        /\ call.res.file.Name.Name # <<>>
        /\ call.res.file.Name.Name \notin GoKeywords

\* C6: Parse on the empty string returns no File and a ParseError whose
\* Offset is 0.
C6_EmptyInput ==
    (call.op = "jo.Parse" /\ call.input = <<>>) =>
        /\ ~call.res.diverged
        /\ call.res.file = Nil
        /\ call.res.err # Nil
        /\ call.res.err.t = "ParseError"
        /\ call.res.err.Offset = 0

\* Parse has been called on the empty string and has returned an error.
C6_Witness ==
    /\ call.op = "jo.Parse"
    /\ call.input = <<>>
    /\ call.res.err # Nil
    /\ call.res.file = Nil

\* C7: when SourceFile succeeds, the Name of the File is the identifier of
\* the package clause and its Decls are the import declarations, in the
\* order of the source, followed by the top-level declarations, in the
\* order of the source; SourceFile fails when the package clause is missing
\* and when no top-level declaration follows the imports.
C7_SourceFileDecls ==
    call.op = "jo.Parse" =>
        \E env \in {Tables(content)} :
            LET r == call.sourceFile
                clause == Apply(WhitespaceWrap(PackageClause), NewSource(content), env)
                imports == Matches(WhitespaceWrap(ImportDecl), clause.output, env)
                tops == Matches(WhitespaceWrap(TopLevelDecl), imports.output, env)
            IN /\ Succeeded(r) =>
                    /\ r.matched.t = "*ast.File"
                    /\ r.matched.Name = clause.matched
                    /\ r.matched.Decls.items = imports.items \o tops.items
               /\ Failed(clause) => Failed(r)
               /\ (Succeeded(clause) /\ tops.items = <<>>) => Failed(r)

\* SourceFile has succeeded on a file of two imports and a function: the
\* Decls are the two import declarations and then the function declaration.
C7_Witness ==
    /\ call.op = "jo.Parse"
    /\ Succeeded(call.sourceFile)
    /\ Len(call.sourceFile.matched.Decls.items) = 3
    /\ call.sourceFile.matched.Decls.items[1].t = "*ast.GenDecl"
    /\ call.sourceFile.matched.Decls.items[2].t = "*ast.GenDecl"
    /\ call.sourceFile.matched.Decls.items[3].t = "*ast.FuncDecl"
    /\ call.sourceFile.matched.Name.Name = <<"m">>

\* C8: when Parse returns a File without an error, SourceFile has consumed
\* the whole input.
C8_ParseIsStrict ==
    Parsed => Finished(call.sourceFile.output)

\* The parsers a Pair, Sequence, Left, Right or Map runs, in order.
Components(p) ==
    CASE p.k \in {"Pair", "Left", "Right"} -> <<p.p1, p.p2>>
      [] p.k = "Sequence" -> p.ps
      [] p.k = "Map" -> <<p.p>>

\* The error of the first of the parsers ps to fail when they are run one
\* after the other from the cursor c on.
RECURSIVE ComponentError(_, _)
ComponentError(ps, c) ==
    IF ps = <<>> THEN Nil
    ELSE IF Sub(ps[1], c).err # Nil THEN Sub(ps[1], c).err
    ELSE ComponentError(Tail(ps), Sub(ps[1], c).output)

\* C9: when Pair, Sequence, Left, Right or Map fails, the error is the
\* error of the component that failed, with its Offset and Message, and the
\* cursor returned is the input cursor.
C9_ComponentError ==
    (/\ call.op = "Parse"
     /\ call.p.k \in {"Pair", "Sequence", "Left", "Right", "Map"}
     /\ Failed(call.res)) =>
        /\ call.res.err = ComponentError(Components(call.p), call.input)
        /\ call.res.output = call.input

\* A Pair that fails in its second parser, past the offset it started at.
C9_Witness ==
    /\ Called("Pair")
    /\ Failed(call.res)
    /\ Succeeded(Sub(call.p.p1, call.input))
    /\ call.res.err.Offset > call.input.Offset
    /\ call.res.output = call.input

\* C10 as stated: Pred(p, f) keeps the cursor and payload of p when p
\* succeeds and f holds of the payload, and in every other case fails with
\* "predicate failed" at the offset of the input cursor.
C10_AlwaysPredicateFailed ==
    Called("Pred") =>
        LET r == Sub(call.p.p, call.input)
        IN IF Succeeded(r) /\ PredFunc(call.p.f, r.matched)
           THEN /\ Succeeded(call.res)
                /\ call.res.output = r.output
                /\ call.res.matched = r.matched
           ELSE call.res.err =
                    NewParseError(call.input.Offset, <<"predicate failed">>)

\* C10, amended: Pred(p, f) keeps the cursor and payload of p when p
\* succeeds and f holds of the payload; when p fails it fails with the error
\* of p; when p succeeds and f does not hold it fails with "predicate
\* failed" at the offset of the input cursor.  A failure returns the input
\* cursor.
C10_Pred ==
    Called("Pred") =>
        LET r == Sub(call.p.p, call.input)
        IN CASE Failed(r) ->
                  /\ call.res.err = r.err
                  /\ call.res.output = call.input
             [] Succeeded(r) /\ PredFunc(call.p.f, r.matched) ->
                  /\ Succeeded(call.res)
                  /\ call.res.output = r.output
                  /\ call.res.matched = r.matched
             [] OTHER ->
                  /\ call.res.err =
                         NewParseError(call.input.Offset, <<"predicate failed">>)
                  /\ call.res.output = call.input

\* A Pred whose p fails: the error is the one of p, not "predicate failed".
C10_Witness ==
    /\ Called("Pred")
    /\ Failed(Sub(call.p.p, call.input))
    /\ call.res.err = Sub(call.p.p, call.input).err
    /\ call.res.err.Message # <<"predicate failed">>

\* The first rune of a string, as a string; the empty string of the empty
\* string.
FirstRune(s) ==
    IF Len(s) = 0 THEN <<>> ELSE EncodeRune(DecodeRuneInString(s).r)

\* C11: Literal(s) succeeds iff the rest of the input at the cursor begins
\* with s, and then advances by the length of s; when it fails, the Offset
\* of its error is the offset of the cursor and the text its message says
\* it got is the first rune of the rest of the input at that offset, the
\* empty string when nothing is left.
C11_Literal ==
    Called("Literal") =>
        LET rem == Remaining(call.input)
        IN /\ Succeeded(call.res) <=> HasPrefix(rem, call.p.s)
           /\ Succeeded(call.res) =>
                 call.res.output.Offset = call.input.Offset + Len(call.p.s)
           /\ Failed(call.res) =>
                 /\ call.res.err.Offset = call.input.Offset
                 /\ call.res.err.Message[3] = FirstRune(rem)

RECURSIVE Sum(_)
Sum(ns) == IF Len(ns) = 0 THEN 0 ELSE ns[1] + Sum(Tail(ns))

Min(a, b) == IF a <= b THEN a ELSE b

\* C12: after calls of Advance(n) with n >= 0 from NewSource(input) on, the
\* offset of the cursor is the smaller of the sum of the n and the length
\* of the input, so it is in 0..len(input); the cursor Advance returns is
\* over the same content, and the cursor it was called on is as it was.
C12_AdvanceClamps ==
    call.op = "Advance" =>
        /\ src.Offset = Min(Sum(call.ns), Len(content))
        /\ src.Offset \in 0..Len(content)
        /\ src.Content = content
        /\ call.after = call.receiver

\* Three calls, the second of which reaches past the end of the input.
C12_Witness ==
    /\ call.op = "Advance"
    /\ Len(call.ns) = 3
    /\ call.ns[1] > 0
    /\ call.ns[1] < Len(content)
    /\ call.ns[1] + call.ns[2] > Len(content)
    /\ src.Offset = Len(content)

IsIdentifierRune(r) == IsLetter(r) \/ r = "_" \/ IsDigit(r)

\* Every rune of s is a letter, a digit or an underscore.
RECURSIVE IdentifierRunes(_)
IdentifierRunes(s) ==
    \/ Len(s) = 0
    \/ /\ IsIdentifierRune(DecodeRuneInString(s).r)
       /\ IdentifierRunes(SubSeq(s, DecodeRuneInString(s).size + 1, Len(s)))

\* C13: Identifier succeeds iff the rest of the input begins with a letter
\* or an underscore; the text it then matches is not empty, is the longest
\* prefix of the rest made of letters, digits and underscores, and the
\* cursor advances by its length in bytes; in every other case, that of
\* nothing left included, it fails with an error at the offset of the cursor.
C13_Identifier ==
    Called("Identifier") =>
        LET rem == Remaining(call.input)
            first == DecodeRuneInString(rem).r
            begins == Len(rem) > 0 /\ (IsLetter(first) \/ first = "_")
            text == call.res.matched.str
            rest == SubSeq(rem, Len(text) + 1, Len(rem))
        IN /\ Succeeded(call.res) <=> begins
           /\ Succeeded(call.res) =>
                 /\ text # <<>>
                 /\ HasPrefix(rem, text)
                 /\ IdentifierRunes(text)
                 /\ ~IsIdentifierRune(DecodeRuneInString(rest).r)
                 /\ call.res.output.Offset = call.input.Offset + Len(text)
           /\ ~begins =>
                 /\ Failed(call.res)
                 /\ call.res.err.Offset = call.input.Offset

\* s begins with the encoding of a rune.
BeginsWithRune(s) ==
    /\ Len(s) > 0
    /\ \/ s[1] \notin NonAsciiBytes
       \/ \E e \in Encodings : HasPrefix(s, e.b)

\* C14: AnyChar, and Rune(r) where r is the rune that comes next, succeed
\* and consume that one rune wherever the rest of the input begins with a
\* well-formed encoding, that of U+FFFD in three bytes included; their
\* error says they got "" only when nothing is left, and says invalid
\* UTF-8 encoding only when the next bytes are malformed.
C14_AnyRune ==
    (Called("AnyChar") \/ Called("Rune")) =>
        LET rem == Remaining(call.input)
            next == DecodeRuneInString(rem)
            gotNothing ==
                call.res.err.Message[1] \in
                    {"wanted any character, got \"\"",
                     "wanted a literal %q, got \"\""}
            gotInvalid ==
                call.res.err.Message[1] \in
                    {"wanted any character, got invalid UTF-8 encoding",
                     "wanted a literal %q, got invalid UTF-8 encoding"}
        IN /\ (BeginsWithRune(rem) /\ (Called("Rune") => call.p.r = next.r)) =>
                 /\ Succeeded(call.res)
                 /\ call.res.matched = RuneV(next.r)
                 /\ call.res.output.Offset = call.input.Offset + next.size
           /\ (Failed(call.res) /\ gotNothing) => Len(rem) = 0
           /\ (Failed(call.res) /\ gotInvalid) =>
                 Len(rem) > 0 /\ ~BeginsWithRune(rem)

\* C15: in a form in parentheses (PackageClause, ImportDecl, CallExpr,
\* BinaryExpr, Selector, StructType, FunctionDecl, Define), more white
\* space between two parts that follow each other, right after the opening
\* parenthesis and right before the closing one included, changes neither
\* whether the form parses nor the node it yields.
C15_WhitespaceBetweenParts ==
    call.op = "Insert" =>
        /\ Succeeded(call.res) <=> Succeeded(call.base)
        /\ Succeeded(call.base) => call.res.matched = call.base.matched

\* C16: when Parse succeeds on s with a File, it succeeds with an equal
\* File on s followed by white space and on white space followed by s.
C16_PaddedFile ==
    (call.op = "Pad" /\ call.base.err = Nil) =>
        /\ call.res.err = Nil
        /\ call.res.file = call.base.file

\* White space of two runes, one of them the no-break space, before a file
\* with an import, a type and a function that Parse accepts.
C16_Witness ==
    /\ call.op = "Pad"
    /\ call.before
    /\ call.base.err = Nil
    /\ Len(call.base.file.Decls.items) = 2
    /\ SubSeq(call.input, 1, 3) = <<"C2", "A0", "\n">>
    /\ call.res.file = call.base.file

\* The atom a form begins with: the identifier right after the opening
\* parenthesis at the cursor c, empty where there is none.
HeadAtom(c) ==
    IF ~HasPrefix(Remaining(c), <<"(">>) THEN <<>>
    ELSE LET r == Apply(Identifier, Advance(c, 1), NoTables(c.Content))
         IN IF Succeeded(r) THEN r.matched.str ELSE <<>>

\* What a grammar rule returns on the cursor c of a text of Snippets.
Rule(p, c) == Apply(p, c, SnippetTables[c.Content])

\* C17: DoExpr succeeds only on a form whose head atom is do, and Block on
\* a call whose function name begins with do and is longer, as in (done),
\* yields the BlockStmt of the one ExprStmt of that call.
C17_DoIsWholeAtom ==
    /\ (call.op = "Parse" /\ call.p = DoExpr /\ Succeeded(call.res)) =>
          HeadAtom(call.input) = <<"d", "o">>
    /\ (/\ call.op = "Parse"
        /\ call.p = Block
        /\ HasPrefix(HeadAtom(call.input), <<"d", "o">>)
        /\ HeadAtom(call.input) # <<"d", "o">>
        /\ Succeeded(Rule(CallExpr, call.input))) =>
          /\ Succeeded(call.res)
          /\ call.res.output = Rule(CallExpr, call.input).output
          /\ call.res.matched =
                [t |-> "*ast.BlockStmt",
                 List |-> Slice("[]ast.Stmt",
                     <<[t |-> "*ast.ExprStmt",
                        X |-> Rule(CallExpr, call.input).matched]>>)]

\* The cursor after the opening parenthesis and the head atom of the form
\* at c.
AfterHead(c) == Advance(c, 1 + Len(HeadAtom(c)))

\* C18: Statement on a form in parentheses whose head atom is define
\* (assign) fails, or yields an AssignStmt whose Tok is := (=) and whose
\* Lhs and Rhs are the identifier list and the expression list of the form,
\* neither empty, in the order of the source; it yields no other node.
C18_DefineIsAssignStmt ==
    (/\ call.op = "Parse"
     /\ call.p = Statement
     /\ HeadAtom(call.input) \in {<<"d", "e", "f", "i", "n", "e">>,
                                  <<"a", "s", "s", "i", "g", "n">>}
     /\ Succeeded(call.res)) =>
        LET lhs == Rule(WhitespaceWrap(IdentifierList), AfterHead(call.input))
            rhs == Rule(WhitespaceWrap(ExpressionList), lhs.output)
        IN /\ call.res.matched.t = "*ast.AssignStmt"
           /\ call.res.matched.Tok =
                 IF HeadAtom(call.input) = <<"d", "e", "f", "i", "n", "e">>
                 THEN Token("DEFINE") ELSE Token("ASSIGN")
           /\ Succeeded(lhs) /\ Succeeded(rhs)
           /\ call.res.matched.Lhs = lhs.matched
           /\ call.res.matched.Rhs = rhs.matched
           /\ Len(lhs.matched.items) > 0
           /\ Len(rhs.matched.items) > 0

\* C19: whenever Block succeeds it returns one BlockStmt that is not nil:
\* for a do form its list holds the statements of the form in the order of
\* the source, and is empty and not nil for (do); for any other statement
\* its list holds that one statement.
C19_BlockIsOneBlockStmt ==
    (call.op = "Parse" /\ call.p = Block /\ Succeeded(call.res)) =>
        /\ call.res.matched.t = "*ast.BlockStmt"
        /\ ~call.res.matched.List.isnil
        /\ IF HeadAtom(call.input) = <<"d", "o">>
           THEN call.res.matched.List =
                    Rule(StatementList, AfterHead(call.input)).matched
           ELSE /\ Succeeded(Rule(Statement, call.input))
                /\ call.res.matched.List.items =
                      <<Rule(Statement, call.input).matched>>

\* C20: IfStmt on (if C B) yields an IfStmt whose Cond is C, whose Body is
\* the Block of B and whose Else is absent, the nil interface and not a nil
\* pointer; on (if C B1 B2) its Else is the Block of B2; and it does not
\* accept a form with more than two blocks after the condition.
C20_IfStmt ==
    (call.op = "Parse" /\ call.p = IfStmt /\ HeadAtom(call.input) = <<"i", "f">>) =>
        LET cond == Rule(Right(ZeroOrMoreWhitespaceChars, Expr),
                         AfterHead(call.input))
            b1 == Rule(WhitespaceWrap(Block), cond.output)
            b2 == Rule(WhitespaceWrap(Block), b1.output)
            b3 == Rule(WhitespaceWrap(Block), b2.output)
            closes(c) == HasPrefix(Remaining(c), <<")">>)
        IN /\ Succeeded(call.res) =>
                 /\ Succeeded(cond) /\ Succeeded(b1)
                 /\ call.res.matched.t = "*ast.IfStmt"
                 /\ call.res.matched.Cond = cond.matched
                 /\ call.res.matched.Body = b1.matched
                 /\ call.res.matched.Else =
                       IF Succeeded(b2) THEN b2.matched ELSE Nil
           /\ (Succeeded(cond) /\ Succeeded(b1) /\ Failed(b2) /\ closes(b1.output)) =>
                 /\ Succeeded(call.res)
                 /\ call.res.matched.Else = Nil
           /\ (Succeeded(cond) /\ Succeeded(b1) /\ Succeeded(b2) /\ closes(b2.output)) =>
                 /\ Succeeded(call.res)
                 /\ call.res.matched.Else = b2.matched
           /\ (/\ Succeeded(cond) /\ Succeeded(b1) /\ Succeeded(b2) /\ Succeeded(b3)
               /\ b3.output.Offset > b2.output.Offset) =>
                 Failed(call.res)

\* (if a b): one block after the condition, and no Else.
C20_Witness ==
    /\ call.op = "Parse"
    /\ call.p = IfStmt
    /\ Succeeded(call.res)
    /\ call.res.matched.Cond = [t |-> "*ast.Ident", Name |-> <<"a">>]
    /\ call.res.matched.Body.t = "*ast.BlockStmt"
    /\ call.res.matched.Else = Nil
    /\ call.res.output.Offset = Len(content)

\* The cursor c moved past the white space it is at.
SkipSpace(c) == Rule(ZeroOrMoreWhitespaceChars, c).output

\* The clauses of a switch form from the cursor c on, each read by the rules
\* of its parts: the CaseClause nodes they stand for and the cursor after
\* the last of them.
RECURSIVE ClauseNodes(_)
ClauseNodes(c) ==
    LET at == SkipSpace(c)
        head == HeadAtom(at)
        isCase == head = <<"c", "a", "s", "e">>
        list == Rule(WhitespaceWrap(ExpressionList), AfterHead(at))
        block == Rule(WhitespaceWrap(Block),
                      IF isCase THEN list.output ELSE AfterHead(at))
        whole == /\ head \in {<<"c", "a", "s", "e">>, <<"d", "e", "f", "a", "u", "l", "t">>}
                 /\ isCase => Succeeded(list)
                 /\ Succeeded(block)
                 /\ HasPrefix(Remaining(block.output), <<")">>)
    IN IF Finished(at) \/ ~whole THEN [nodes |-> <<>>, output |-> at]
       ELSE LET rest == ClauseNodes(Advance(block.output, 1))
                node == [t |-> "*ast.CaseClause",
                         List |-> IF isCase THEN list.matched
                                  ELSE NilSlice("[]ast.Expr"),
                         Body |-> block.matched.List]
            IN [nodes |-> <<node>> \o rest.nodes, output |-> rest.output]

\* C21: ExprSwitchStmt yields a SwitchStmt whose Body lists one CaseClause
\* for each clause of the form, in the order of the source; the clause of
\* (case L B) has the expression list L, which is not empty, as its List
\* and the statements of B as its Body, the clause of (default B) has no
\* List; (switch) without clauses succeeds with an empty Body.
C21_SwitchClauses ==
    (/\ call.op = "Parse"
     /\ call.p = ExprSwitchStmt
     /\ HeadAtom(call.input) = <<"s", "w", "i", "t", "c", "h">>) =>
        LET cs == ClauseNodes(AfterHead(call.input))
        IN /\ Succeeded(call.res) =>
                 /\ call.res.matched.t = "*ast.SwitchStmt"
                 /\ call.res.matched.Body.t = "*ast.BlockStmt"
                 /\ call.res.matched.Body.List.items = cs.nodes
                 /\ call.res.output = Advance(cs.output, 1)
                 /\ \A i \in 1..Len(cs.nodes) :
                       \/ cs.nodes[i].List.isnil
                       \/ Len(cs.nodes[i].List.items) > 0
           /\ HasPrefix(Remaining(cs.output), <<")">>) => Succeeded(call.res)

\* A switch with a case clause followed by a default clause.
C21_Witness ==
    /\ call.op = "Parse"
    /\ call.p = ExprSwitchStmt
    /\ Succeeded(call.res)
    /\ Len(call.res.matched.Body.List.items) = 2
    /\ Len(call.res.matched.Body.List.items[1].List.items) = 1
    /\ call.res.matched.Body.List.items[2].List.isnil
    /\ call.res.matched.Body.List.items[2].Body.items # <<>>

\* C22: Selector on (sel Base s1 ... sn) with n >= 1 folds from the left:
\* the accumulator starts as Base, a suffix that is an identifier makes it
\* SelectorExpr{acc, ident}, a suffix (Ident Expr*) makes it
\* CallExpr{Fun = SelectorExpr{acc, ident}, Args}, and the result is the
\* accumulator after the last suffix; with no suffix Selector fails.
C22_SelectorFoldsLeft ==
    (/\ call.op = "Parse"
     /\ call.p = Selector
     /\ HeadAtom(call.input) = <<"s", "e", "l">>) =>
        LET base == Rule(Right(OneOrMoreWhitespaceChars, Expr), AfterHead(call.input))
            suffixes ==
                Matches(Right(OneOrMoreWhitespaceChars, Choice(<<SelectorCall, Ident>>)),
                        base.output, SnippetTables[content]).items
            n == Len(suffixes)
            acc[i \in 0..n] ==
                IF i = 0 THEN base.matched
                ELSE IF suffixes[i].t = "*ast.Ident"
                THEN [t |-> "*ast.SelectorExpr", X |-> acc[i - 1], Sel |-> suffixes[i]]
                ELSE [t |-> "*ast.CallExpr",
                      Fun |-> [t |-> "*ast.SelectorExpr", X |-> acc[i - 1],
                               Sel |-> suffixes[i].Sel],
                      Args |-> suffixes[i].Args]
        IN /\ Succeeded(call.res) =>
                 /\ Succeeded(base)
                 /\ n >= 1
                 /\ call.res.matched = acc[n]
           /\ (Succeeded(base) /\ n = 0) => Failed(call.res)

\* (sel a b (c 1)): the call of c is applied to a.b.
C22_Witness ==
    /\ call.op = "Parse"
    /\ call.p = Selector
    /\ Succeeded(call.res)
    /\ call.res.matched.t = "*ast.CallExpr"
    /\ call.res.matched.Fun.Sel.Name = <<"c">>
    /\ call.res.matched.Fun.X.t = "*ast.SelectorExpr"
    /\ call.res.matched.Fun.X.X.Name = <<"a">>
    /\ call.res.matched.Fun.X.Sel.Name = <<"b">>

\* C23: OperandName tries the qualified form first: on two identifiers
\* joined by a dot it yields the SelectorExpr of the two and consumes both
\* and the dot; only when the qualified form fails does it yield the single
\* Ident, consuming the identifier alone.
C23_QualifiedFirst ==
    (call.op = "Parse" /\ call.p = OperandName) =>
        LET first == Rule(Identifier, call.input)
            second == Rule(Identifier, Advance(first.output, 1))
            joined == /\ Succeeded(first) /\ first.matched.str # <<>>
                      /\ HasPrefix(Remaining(first.output), <<".">>)
                      /\ Succeeded(second) /\ second.matched.str # <<>>
            qualified == Rule(QualifiedIdent, call.input)
        IN /\ joined =>
                 /\ Succeeded(call.res)
                 /\ call.res.matched =
                       [t |-> "*ast.SelectorExpr",
                        X |-> [t |-> "*ast.Ident", Name |-> first.matched.str],
                        Sel |-> [t |-> "*ast.Ident", Name |-> second.matched.str]]
                 /\ call.res.output = second.output
           /\ Succeeded(qualified) => call.res = qualified
           /\ Failed(qualified) =>
                 /\ Succeeded(call.res) <=> Succeeded(first)
                 /\ Succeeded(call.res) =>
                       /\ call.res.matched =
                             [t |-> "*ast.Ident", Name |-> first.matched.str]
                       /\ call.res.output = first.output

\* a.b inside a text: both identifiers and the dot are taken.
C23_Witness ==
    /\ call.op = "Parse"
    /\ call.p = OperandName
    /\ Succeeded(call.res)
    /\ call.res.matched.t = "*ast.SelectorExpr"
    /\ call.res.matched.X.Name = <<"a">>
    /\ call.res.matched.Sel.Name = <<"b">>
    /\ call.res.output.Offset = call.input.Offset + 3

\* The cursor c moved past the digits it is at.
SkipDigits(c) == Matches(decimalDigit, c, NoTables(c.Content)).output

\* The bytes of the content between two cursors.
TextBetween(from, to) == SubSeq(from.Content, from.Offset + 1, to.Offset)

\* C24: basicLit tries float, int, rune and string in that order: on one
\* or more digits, a dot and one or more digits it yields one FLOAT
\* BasicLit whose Value is the whole of that text, and not the INT of the
\* digits before the dot with the rest left over.
C24_FloatBeforeInt ==
    (call.op = "Parse" /\ call.p = basicLit) =>
        LET dot == SkipDigits(call.input)
            end == SkipDigits(Advance(dot, 1))
            isFloat == /\ dot.Offset > call.input.Offset
                       /\ HasPrefix(Remaining(dot), <<".">>)
                       /\ end.Offset > dot.Offset + 1
        IN /\ isFloat =>
                 /\ Succeeded(call.res)
                 /\ call.res.matched =
                       [t |-> "*ast.BasicLit", Kind |-> "FLOAT",
                        Value |-> TextBetween(call.input, end)]
                 /\ call.res.output = end
           /\ call.res =
                 LET alternatives == <<decimalFloatLit, decimalLit, RuneLit, stringLit>>
                     ok == {i \in 1..4 : Succeeded(Rule(alternatives[i], call.input))}
                 IN IF ok = {} THEN Rule(stringLit, call.input)
                    ELSE Rule(alternatives[CHOOSE i \in ok : \A j \in ok : i <= j],
                              call.input)

\* 1.5 inside a text: a FLOAT of three bytes.
C24_Witness ==
    /\ call.op = "Parse"
    /\ call.p = basicLit
    /\ Succeeded(call.res)
    /\ call.res.matched.Kind = "FLOAT"
    /\ call.res.matched.Value = <<"1", ".", "5">>
    /\ call.res.output.Offset = call.input.Offset + 3

\* C25: decimalLit yields no INT literal that begins with 0 and goes on:
\* on a 0 it matches that one byte, with the Value "0", and leaves the
\* digits after it; on a digit other than 0 it matches the longest run of
\* digits.
C25_NoLeadingZero ==
    (call.op = "Parse" /\ call.p = decimalLit) =>
        LET rem == Remaining(call.input)
            first == DecodeRuneInString(rem).r
            end == SkipDigits(call.input)
        IN /\ HasPrefix(rem, <<"0">>) =>
                 /\ Succeeded(call.res)
                 /\ call.res.matched =
                       [t |-> "*ast.BasicLit", Kind |-> "INT", Value |-> <<"0">>]
                 /\ call.res.output.Offset = call.input.Offset + 1
           /\ (Len(rem) > 0 /\ IsDigit(first) /\ first # "0") =>
                 /\ Succeeded(call.res)
                 /\ call.res.matched =
                       [t |-> "*ast.BasicLit", Kind |-> "INT",
                        Value |-> TextBetween(call.input, end)]
                 /\ call.res.output = end
           /\ Succeeded(call.res) =>
                 \/ call.res.matched.Value = <<"0">>
                 \/ call.res.matched.Value[1] # "0"

\* 007: the first 0 alone is matched, and 07 is left.
C25_Witness ==
    /\ call.op = "Parse"
    /\ call.p = decimalLit
    /\ HasPrefix(Remaining(call.input), <<"0", "0", "7">>)
    /\ Succeeded(call.res)
    /\ call.res.matched.Value = <<"0">>
    /\ call.res.output.Offset = call.input.Offset + 1

\* C26: stringLit and QuotedString at an opening double quote with no
\* closing double quote in the rest of the input fail with an error whose
\* Offset is the length of the input, and return the input cursor.
C26_UnterminatedString ==
    (/\ call.op = "Parse"
     /\ call.p \in {stringLit, QuotedString}
     /\ HasPrefix(Remaining(call.input), <<"\"">>)
     /\ \A i \in (call.input.Offset + 2)..Len(content) : content[i] # "\"") =>
        /\ Failed(call.res)
        /\ call.res.err.Offset = Len(content)
        /\ call.res.output = call.input

\* What Parse returns on a file when it is the only call.
Alone(c) == ParseResult(Apply(SourceFile, NewSource(c), FileTables[c]))

\* C27: parsers are pure and can be used again: two calls of Parse whose
\* steps are interleaved in any order return, each, what Parse returns on
\* its input when run alone, so that equal inputs give equal results; and
\* a call leaves the input strings as they were.
C27_CallsDoNotInterfere ==
    call.op = "Two" =>
        /\ \A t \in 1..2 :
              /\ call.frames[t].returned => call.frames[t].res = Alone(content[t])
              /\ call.frames[t].r.Content = content[t]
              /\ src[t] = NewSource(content[t])
        /\ (/\ content[1] = content[2]
            /\ call.frames[1].returned
            /\ call.frames[2].returned) =>
              call.frames[1].res = call.frames[2].res

\* Two calls on different inputs, the steps of one between those of the
\* other, one returning a File and one an error.
C27_Witness ==
    /\ call.op = "Two"
    /\ content[1] # content[2]
    /\ call.frames[1].returned
    /\ call.frames[2].returned
    /\ call.frames[1].res.err = Nil
    /\ call.frames[2].res.err # Nil
    /\ Len(call.order) >= 4
    /\ SubSeq(call.order, 1, 4) = <<1, 2, 1, 2>>

\* The cursors at which SourceFile tries the first top-level declaration
\* of the text c: after the package clause, the import declarations and the
\* white space that follows them; none when the package clause fails.
FirstDecl(c) ==
    LET env == Tables(c)
        pkg == Apply(SourceFile.p.ps[1], NewSource(c), env)
        imports == Apply(SourceFile.p.ps[2], pkg.output, env)
    IN IF Failed(pkg) \/ Failed(imports) THEN {}
       ELSE {Apply(ZeroOrMoreWhitespaceChars, imports.output, env).output}

\* C28: the Offset of an error Parse returns lies between 0 and the length
\* of the input; and when the first top-level declaration fails, the error
\* Parse returns is the error of FunctionDecl, the last alternative of
\* TopLevelDecl, whatever the offset at which TypeDecl failed.
C28_LastAlternativeError ==
    (call.op = "jo.Parse" /\ ~call.res.diverged /\ call.res.err # Nil) =>
        /\ call.res.err.Offset \in 0..Len(content)
        /\ \A d \in FirstDecl(content) :
              Failed(Apply(TopLevelDecl, d, Tables(content))) =>
                 call.res.err = Apply(FunctionDecl, d, Tables(content)).err

\* Parse fails in the first top-level declaration, where TypeDecl failed
\* at a larger offset than FunctionDecl.
C28_Witness ==
    /\ call.op = "jo.Parse"
    /\ call.res.err # Nil
    /\ \E d \in FirstDecl(content) :
          /\ Failed(Apply(TopLevelDecl, d, Tables(content)))
          /\ Apply(TypeDecl, d, Tables(content)).err.Offset >
                Apply(FunctionDecl, d, Tables(content)).err.Offset
          /\ call.res.err.Offset < Apply(TypeDecl, d, Tables(content)).err.Offset

\* The parser a rule runs: for a parser referred to by name, what its Parse
\* method builds.
Body(p) == IF p.k = "Named" THEN Lookup(p.name) ELSE p

\* The parsers that the repetitions inside p repeat.
RECURSIVE Repeated(_)
Repeated(p) ==
    CASE p.k \in {"ZeroOrMore", "OneOrMore"} -> {p.p} \cup Repeated(p.p)
      [] p.k \in {"Optional", "Pred", "Map"} -> Repeated(p.p)
      [] p.k \in {"Pair", "Left", "Right"} -> Repeated(p.p1) \cup Repeated(p.p2)
      [] p.k \in {"Sequence", "Choice"} ->
            UNION {Repeated(p.ps[i]) : i \in DOMAIN p.ps}
      [] OTHER -> {}

\* The parsers the repetitions of the grammar repeat: the statements of a
\* StatementList, arguments, identifiers and expressions of lists, switch
\* clauses, import and top-level declarations, white space, digits.
Repetitions == UNION {Repeated(Body(p)) : p \in Rules}

\* The parsers through which the grammar refers to itself.
Recursive ==
    {Expr, Statement, Block, StatementList, Selector, CallExpr, BinaryExpr,
     UnaryExpr}

\* The tables env of the text c without the result of the parser name at
\* the offset o: a parser that looks it up does not return.
Without(name, o, c, env) ==
    LET less(n) == IF n = name
                   THEN [i \in DOMAIN env[n] |->
                            IF i = o THEN TooDeep(c) ELSE env[n][i]]
                   ELSE env[n]
    IN Env(less("Expr"), less("Statement"), less("Block"),
           less("StatementList"))

\* C29: every rule of the grammar, SourceFile among them, returns on every
\* text at every offset; what a repetition of the grammar repeats moves the
\* cursor when it succeeds before the end of the input; and a parser
\* through which the grammar refers to itself is not reached again at the
\* offset it was started at: Expr, Statement, Block and StatementList
\* return the same without their own result at that offset, and Selector,
\* CallExpr, BinaryExpr and UnaryExpr without that of Expr.
C29_ParseTerminates ==
    (call.op = "Parse" /\ call.p \in Rules) =>
        /\ ~call.res.diverged
        /\ call.p \in Recursive =>
              Apply(Body(call.p), call.input,
                    Without(IF call.p.k = "Named" THEN call.p.name ELSE "Expr",
                            call.input.Offset, content,
                            SnippetTables[content])) = call.res
        /\ call.p = StatementList =>
              \A e \in Repetitions :
                 \A r \in {Apply(e, call.input, SnippetTables[content])} :
                    (Succeeded(r) /\ ~Finished(call.input)) =>
                       r.output.Offset > call.input.Offset

\* A statement list of two statements inside a function body, read from
\* an offset past the start of the text.
C29_Witness ==
    /\ call.op = "Parse"
    /\ call.p = StatementList
    /\ call.input.Offset > 0
    /\ Succeeded(call.res)
    /\ Len(call.res.matched.items) >= 2
    /\ call.res.output.Offset > call.input.Offset

\* C30: ZeroOrMore(p) and OneOrMore(p) return at every cursor when p
\* returns at every cursor of the input, also when p succeeds without
\* moving the cursor before the end of the input.
C30_RepetitionTerminates ==
    (/\ call.op = "Parse"
     /\ call.p.k \in {"ZeroOrMore", "OneOrMore"}
     /\ \A o \in 0..Len(content) : ~Sub(call.p.p, Source(content, o)).diverged) =>
        ~call.res.diverged

====
